---- MODULE Spec2Model ----
(***************************************************************************)
(* State-machine model of the money-muling analysis engine:                *)
(*   graph_builder.py      GraphBuilder.build_graph                        *)
(*   cycle_detector_v2.py  CycleDetectorV2.find_all_cycles and helpers     *)
(*   scoring.py            SuspicionScorer                                 *)
(*                                                                         *)
(* Account identifiers are strings in the program; here an account is a    *)
(* natural number standing for the rank of its identifier in Python's      *)
(* string order, so that list comparison of cycles (min of the rotations)  *)
(* is the lexicographic order on sequences of naturals.  Amounts are       *)
(* floats in the program; here they are integers and every derived score   *)
(* is an exact rational <<numerator, denominator>>: rounding of float      *)
(* arithmetic is not modelled.                                             *)
(***************************************************************************)
EXTENDS Integers, Sequences, FiniteSets, TLC

VARIABLES
    pc,             \* position of the analysis: "start", "built", "cycles",
                    \* "smurfing", "shell", "scored" (or "refused")
    transactions,   \* GraphBuilder.transactions: the batch being analysed
    graph,          \* GraphBuilder.graph (nx.DiGraph)
    account_data,   \* GraphBuilder.account_data
    cycles,         \* CycleDetectorV2.cycles: every cycle recorded by the DFS
    dfs_roots,      \* the start nodes find_all_cycles handed to _dfs_cycles, in order
    all_cycles,     \* the list find_all_cycles returned
    score_args,     \* the detector outputs handed to the scorer for one account
    account_score,  \* what the scorer returned for them
    round,          \* how many times the batch was submitted again
    prev,           \* outcome of the previous submission of the same batch
    hash_seed,      \* the string hash seed of the process: fixes the iteration order of sets
    smurfing_accounts,  \* what detect_smurfing_accounts returned
    shell_accounts,     \* what detect_shell_accounts returned
    requests,       \* the POST /api/analyze requests: the local variables of each
    position,       \* where analyze_transactions stands for each request: "idle",
                    \* "analyzing", "built", "cycles", "smurfing", "shell", "scored",
                    \* "done" or "failed"
    analysis_cache, \* main.analysis_cache: analysis_id -> report
    clock,          \* the wall clock read by datetime.utcnow()
    response        \* the last response to GET /api/analysis/{analysis_id}

run_vars == <<pc, transactions, graph, account_data, cycles, dfs_roots, all_cycles,
              score_args, account_score, round, prev, smurfing_accounts, shell_accounts>>
api_vars == <<requests, position, analysis_cache, clock, response>>
vars == <<run_vars, hash_seed, api_vars>>

(***************************************************************************)
(* Generic helpers on sequences and sets.                                  *)
(***************************************************************************)
Range(s) == {s[i] : i \in DOMAIN s}

RECURSIVE SumSeq(_)
SumSeq(s) == IF s = <<>> THEN 0 ELSE s[1] + SumSeq(Tail(s))

RECURSIVE Concat(_)
Concat(ss) == IF ss = <<>> THEN <<>> ELSE ss[1] \o Concat(Tail(ss))

\* Python's list comparison a < b on lists of accounts
RECURSIVE LexLess(_, _)
LexLess(a, b) ==
    IF b = <<>> THEN FALSE
    ELSE IF a = <<>> THEN TRUE
    ELSE IF a[1] # b[1] THEN a[1] < b[1]
    ELSE LexLess(Tail(a), Tail(b))

Prefix(s, n) == SubSeq(s, 1, IF n < Len(s) THEN n ELSE Len(s))

\* The list a comprehension builds: every element is computed once, here.
AsList(f) == SubSeq(f, 1, Len(f))

\* TRUE, once the value v has been computed.  A loop over a long list is written
\* as its first half followed by its second half, the second half starting from
\* the computed result of the first: the iterations run in the list's order.
Computed(v) == v = v

\* `x = v` followed by the statements that use x: v is computed once, and Op is
\* what follows, as a function of x
Bind(v, Op(_)) == Op(v)

(***************************************************************************)
(* Transaction (schemas/transaction.py).                                   *)
(***************************************************************************)
Txn(id, f, t, a, ts) ==
    [id |-> id, from_account |-> f, to_account |-> t, amount |-> a, timestamp |-> ts]

(***************************************************************************)
(* GraphBuilder (engine/graph_builder.py).  A DiGraph keeps its nodes and  *)
(* each node's successors in insertion order; both orders are part of the  *)
(* model because the cycle detector iterates them.                         *)
(***************************************************************************)
EmptyGraph == [nodes |-> <<>>, succ |-> <<>>, edges |-> <<>>]

ZeroAccount ==
    [in_degree |-> 0, out_degree |-> 0, total_in |-> 0, total_out |-> 0, txn_count |-> 0]

NodeSet(G) == Range(G.nodes)

has_edge(G, u, v) == <<u, v>> \in DOMAIN G.edges

\* graph.out_degree(n): number of out-edges of n
out_degree(G, n) == Len(G.succ[n])

\* lines 33-51: add the node with zeroed aggregates unless it is in the graph
add_account(st, n) ==
    IF n \in NodeSet(st.graph) THEN st
    ELSE [graph |-> [st.graph EXCEPT !.nodes = Append(@, n),
                                     !.succ = @ @@ (n :> <<>>)],
          account_data |-> st.account_data @@ (n :> ZeroAccount)]

\* lines 62-69: the edge created by the first transaction of a pair
new_edge(txn) ==
    [amount |-> txn.amount, transaction_ids |-> <<txn.id>>, count |-> 1,
     timestamp |-> txn.timestamp]

\* a variant of append_edge that stores the last amount instead of adding it
append_edge_overwrites(edge_data, txn) ==
    [edge_data EXCEPT !.amount = txn.amount,
                      !.transaction_ids = Append(@, txn.id),
                      !.count = @ + 1]

\* lines 56-59: a further transaction of an existing edge
append_edge(edge_data, txn) ==
    [edge_data EXCEPT !.amount = @ + txn.amount,
                      !.transaction_ids = Append(@, txn.id),
                      !.count = @ + 1]

\* lines 53-69
add_txn_edge(G, txn) ==
    LET u == txn.from_account
        v == txn.to_account
    IN IF has_edge(G, u, v)
       THEN [G EXCEPT !.edges[<<u, v>>] = append_edge(@, txn)]
       ELSE [G EXCEPT !.succ[u] = Append(@, v),
                      !.edges = @ @@ (<<u, v>> :> new_edge(txn))]

\* lines 72-74
credit_sender(ad, txn) ==
    [ad EXCEPT ![txn.from_account].out_degree = @ + 1,
               ![txn.from_account].total_out = @ + txn.amount,
               ![txn.from_account].txn_count = @ + 1]

\* a variant of credit_receiver that skips the receiver of a self-transfer
credit_receiver_skips_self(ad, txn) ==
    IF txn.to_account = txn.from_account THEN ad
    ELSE [ad EXCEPT ![txn.to_account].in_degree = @ + 1,
                    ![txn.to_account].total_in = @ + txn.amount,
                    ![txn.to_account].txn_count = @ + 1]

\* lines 76-78
credit_receiver(ad, txn) ==
    [ad EXCEPT ![txn.to_account].in_degree = @ + 1,
               ![txn.to_account].total_in = @ + txn.amount,
               ![txn.to_account].txn_count = @ + 1]

\* lines 31-78: one iteration of the loop over the transactions
build_step(st, txn) ==
    LET s1 == add_account(st, txn.from_account)
        s2 == add_account(s1, txn.to_account)
    IN [graph |-> add_txn_edge(s2.graph, txn),
        account_data |-> credit_receiver(credit_sender(s2.account_data, txn), txn)]

\* lines 31-78: the loop over T[lo..hi], in order
RECURSIVE build_loop(_, _, _, _)
build_loop(st, T, lo, hi) ==
    IF lo > hi THEN st
    ELSE IF lo = hi THEN build_step(st, T[lo])
    ELSE LET mid == (lo + hi) \div 2
             first_half == build_loop(st, T, lo, mid)
         IN IF Computed(first_half) THEN build_loop(first_half, T, mid + 1, hi) ELSE st

\* lines 19-80: [graph, account_data] after build_graph(T)
build_graph(T) ==
    build_loop([graph |-> EmptyGraph, account_data |-> <<>>], T, 1, Len(T))

(***************************************************************************)
(* Exact rationals <<n, d>> with d > 0, kept in lowest terms.              *)
(***************************************************************************)
RECURSIVE GCD(_, _)
GCD(a, b) == IF b = 0 THEN a ELSE GCD(b, a % b)

Abs(x) == IF x < 0 THEN -x ELSE x

Norm(n, d) ==
    LET g == GCD(Abs(n), Abs(d))
        s == IF d < 0 THEN -1 ELSE 1
    IN IF n = 0 THEN <<0, 1>> ELSE <<s * (n \div g), s * (d \div g)>>

R(n) == <<n, 1>>
Frac(n, d) == Norm(n, d)
RAdd(a, b) ==
    LET g == GCD(a[2], b[2])
    IN Norm(a[1] * (b[2] \div g) + b[1] * (a[2] \div g), (a[2] \div g) * b[2])
RSub(a, b) == RAdd(a, <<-b[1], b[2]>>)
RMul(a, b) ==
    LET g1 == GCD(Abs(a[1]), b[2])
        g2 == GCD(Abs(b[1]), a[2])
    IN IF a[1] = 0 \/ b[1] = 0 THEN <<0, 1>>
       ELSE Norm((a[1] \div g1) * (b[1] \div g2), (a[2] \div g2) * (b[2] \div g1))
RDiv(a, b) == RMul(a, IF b[1] < 0 THEN <<-b[2], -b[1]>> ELSE <<b[2], b[1]>>)
RLess(a, b) ==
    LET g == GCD(a[2], b[2]) IN a[1] * (b[2] \div g) < b[1] * (a[2] \div g)
RLeq(a, b) == ~RLess(b, a)
\* Python's min(a, b) and max(a, b): the first argument unless the second is
\* strictly smaller (larger)
RMin(a, b) == IF RLess(b, a) THEN b ELSE a
RMax(a, b) == IF RLess(a, b) THEN b ELSE a

\* sum(xs) of a list of scores, and max(a, b) of two counts
RECURSIVE RSum(_)
RSum(xs) == IF xs = <<>> THEN R(0) ELSE RAdd(xs[1], RSum(Tail(xs)))

MaxInt(a, b) == IF a < b THEN b ELSE a

(***************************************************************************)
(* CycleDetectorV2 (engine/cycle_detector_v2.py).                          *)
(***************************************************************************)
\* main.py line 82: find_all_cycles(max_length=5, min_length=3)
max_length == 5
min_length == 3
\* line 38: nodes_by_degree[:50]
high_degree_prefix == 50
\* line 55: scored_cycles[:100]
top_k == 100

\* list.sort(key=..., reverse=True) and sorted(..., reverse=True) on a list of
\* [key, item] pairs: descending by key, and the sort is stable, so items of
\* equal key keep their order.  Item j comes before item i iff its key is
\* larger, or the keys are equal and j was before i.
SortDesc(xs) ==
    LET n == Len(xs)
        ys == AsList(xs)
        before(j, i) == \/ RLess(ys[i].key, ys[j].key)
                        \/ (j < i /\ ~RLess(ys[j].key, ys[i].key))
        rank == AsList([i \in 1..n |-> 1 + Cardinality({j \in 1..n : j # i /\ before(j, i)})])
    IN AsList([k \in 1..n |-> ys[CHOOSE i \in 1..n : rank[i] = k].item])

\* a variant of dfs_cycles that closes a cycle at any path length
RECURSIVE dfs_cycles_any_length(_, _, _, _, _, _)
dfs_cycles_any_length(G, start, path, visited, maxlen, minlen) ==
    IF Len(path) > maxlen THEN <<>>
    ELSE LET successors == G.succ[path[Len(path)]]
         IN Concat([i \in 1..Len(successors) |->
                LET neighbor == successors[i]
                IN IF neighbor = start
                   THEN <<path>>
                   ELSE IF neighbor \notin visited /\ Len(path) < maxlen
                        THEN dfs_cycles_any_length(G, start, Append(path, neighbor),
                                                   visited \cup {neighbor}, maxlen, minlen)
                        ELSE <<>>])

\* lines 57-78: the cycles the DFS below `path` appends to self.cycles, in the
\* order it appends them.  `visited` is the set the code extends before the
\* recursive call and restores after it.
RECURSIVE dfs_cycles(_, _, _, _, _, _)
dfs_cycles(G, start, path, visited, maxlen, minlen) ==
    IF Len(path) > maxlen THEN <<>>
    ELSE LET successors == G.succ[path[Len(path)]]
         IN Concat([i \in 1..Len(successors) |->
                LET neighbor == successors[i]
                IN IF neighbor = start /\ Len(path) >= minlen
                   THEN <<path>>
                   ELSE IF neighbor \notin visited /\ Len(path) < maxlen
                        THEN dfs_cycles(G, start, Append(path, neighbor),
                                        visited \cup {neighbor}, maxlen, minlen)
                        ELSE <<>>])

\* lines 32-36
nodes_by_degree(G) ==
    SortDesc([i \in 1..Len(G.nodes) |->
                [key |-> R(out_degree(G, G.nodes[i])), item |-> G.nodes[i]]])

\* line 40-41 and 46-47: the DFS from `node`, st = [cycles, roots, visited_globally]
start_dfs(G, node, maxlen, minlen, st) ==
    [cycles |-> st.cycles \o dfs_cycles(G, node, <<node>>, {node}, maxlen, minlen),
     roots |-> Append(st.roots, node),
     visited_globally |-> st.visited_globally \cup {node}]

\* lines 38-41: one iteration of the loop over the high-degree prefix
top_step(G, node, maxlen, minlen, st) ==
    IF node \notin st.visited_globally
    THEN start_dfs(G, node, maxlen, minlen, st)
    ELSE st

\* a variant of remaining_step that starts no DFS: only the prefix is searched
remaining_step_skips(G, node, maxlen, minlen, st) == st

\* lines 44-47: one iteration of the loop over all the nodes
remaining_step(G, node, maxlen, minlen, st) ==
    IF node \notin st.visited_globally /\ out_degree(G, node) > 0
    THEN start_dfs(G, node, maxlen, minlen, st)
    ELSE st

\* lines 38-41: the loop over nodes[lo..hi], in order
RECURSIVE top_pass(_, _, _, _, _, _, _)
top_pass(G, nodes, lo, hi, maxlen, minlen, st) ==
    IF lo > hi THEN st
    ELSE IF lo = hi THEN top_step(G, nodes[lo], maxlen, minlen, st)
    ELSE LET mid == (lo + hi) \div 2
             first_half == top_pass(G, nodes, lo, mid, maxlen, minlen, st)
         IN IF Computed(first_half)
            THEN top_pass(G, nodes, mid + 1, hi, maxlen, minlen, first_half)
            ELSE st

\* lines 44-47: the loop over nodes[lo..hi], in order
RECURSIVE remaining_pass(_, _, _, _, _, _, _)
remaining_pass(G, nodes, lo, hi, maxlen, minlen, st) ==
    IF lo > hi THEN st
    ELSE IF lo = hi THEN remaining_step(G, nodes[lo], maxlen, minlen, st)
    ELSE LET mid == (lo + hi) \div 2
             first_half == remaining_pass(G, nodes, lo, mid, maxlen, minlen, st)
         IN IF Computed(first_half)
            THEN remaining_pass(G, nodes, mid + 1, hi, maxlen, minlen, first_half)
            ELSE st

\* lines 28-47: self.cycles and the roots used, after both passes
search_cycles(G, maxlen, minlen) ==
    LET st0 == [cycles |-> <<>>, roots |-> <<>>, visited_globally |-> {}]
        top == Prefix(nodes_by_degree(G), high_degree_prefix)
        st1 == top_pass(G, top, 1, Len(top), maxlen, minlen, st0)
    IN IF Computed(st1)
       THEN remaining_pass(G, G.nodes, 1, Len(G.nodes), maxlen, minlen, st1)
       ELSE st0

\* lines 95-98: min over the rotations cycle[i:] + cycle[:i]
Rotation(cycle, i) == SubSeq(cycle, i + 1, Len(cycle)) \o SubSeq(cycle, 1, i)

RECURSIVE MinRotation(_, _, _)
MinRotation(cycle, i, best) ==
    IF i >= Len(cycle) THEN best
    ELSE MinRotation(cycle, i + 1,
                     IF LexLess(Rotation(cycle, i), best) THEN Rotation(cycle, i) ELSE best)

\* a variant of get_canonical_cycle that keeps the cycle as discovered
get_canonical_cycle_as_found(cycle) == cycle

get_canonical_cycle(cycle) == MinRotation(cycle, 1, Rotation(cycle, 0))

\* lines 80-93: a cycle is appended to `unique` iff its canonical form is not in
\* seen_cycles, that is, iff no earlier cycle of the list has the same canonical
\* form; the kept cycles stay in the order of the list, in their discovered form.
deduplicate_cycles(cs) ==
    LET canonical == AsList([i \in 1..Len(cs) |-> get_canonical_cycle(cs[i])])
        kept == SelectSeq([i \in 1..Len(cs) |-> i],
                          LAMBDA i : \A j \in 1..(i - 1) : canonical[j] # canonical[i])
    IN [k \in 1..Len(kept) |-> cs[kept[k]]]

\* line 150: the edges of a cycle, wrap included
cycle_edges(cycle) ==
    [i \in 1..Len(cycle) |-> <<cycle[i], cycle[(i % Len(cycle)) + 1]>>]

\* lines 148-178 (the fields the strength and the report use)
get_cycle_metrics(G, cycle) ==
    LET edges == cycle_edges(cycle)
        present == SelectSeq(edges, LAMBDA e : has_edge(G, e[1], e[2]))
        amounts_per_edge == [i \in 1..Len(present) |-> G.edges[present[i]].amount]
        transaction_ids == Concat([i \in 1..Len(present) |-> G.edges[present[i]].transaction_ids])
    IN [length |-> Len(cycle),
        accounts |-> cycle,
        total_amount |-> SumSeq(amounts_per_edge),
        transaction_ids |-> transaction_ids,
        num_transactions |-> Len(transaction_ids)]

\* lines 122-146
calculate_cycle_strength(cycle, metrics) ==
    LET volume_factor == IF metrics.total_amount > 0
                         THEN Frac(metrics.total_amount, 100000) ELSE R(0)
        frequency_factor == Frac(metrics.num_transactions, 10)
        complexity_factor == Frac(Len(cycle), 3)
        strength == RAdd(RAdd(RMul(volume_factor, Frac(40, 100)),
                              RMul(frequency_factor, Frac(35, 100))),
                         RMul(complexity_factor, Frac(25, 100)))
    IN RMin(strength, R(10))

\* lines 100-120
score_cycles_by_strength(G, cs) ==
    SortDesc([i \in 1..Len(cs) |->
                [key |-> calculate_cycle_strength(cs[i], get_cycle_metrics(G, cs[i])),
                 item |-> cs[i]]])

\* a variant of top_cycles that cuts the list before ranking it
top_cycles_cut_first(G, cs) ==
    score_cycles_by_strength(G, Prefix(deduplicate_cycles(cs), top_k))

\* lines 49-55
top_cycles(G, cs) == Prefix(score_cycles_by_strength(G, deduplicate_cycles(cs)), top_k)

\* lines 24-55: [cycles |-> self.cycles, roots, result |-> the returned list]
find_all_cycles(G, maxlen, minlen) ==
    LET found == search_cycles(G, maxlen, minlen)
    IN [cycles |-> found.cycles, roots |-> found.roots, result |-> top_cycles(G, found.cycles)]

(***************************************************************************)
(* Iteration orders.  A dict iterates its keys in the order they were      *)
(* first inserted.  A set of account identifiers iterates in the order of  *)
(* the identifiers' hashes, which the interpreter fixes when the process   *)
(* starts (string hashing is seeded per process): the order is the same    *)
(* for the whole life of a process and may differ between processes.  The  *)
(* model knows two hash orders, hash_seed 0 and 1.                         *)
(***************************************************************************)
\* the elements of a list, each kept where it first occurs
FirstSeen(xs) ==
    LET ys == AsList(xs)
    IN Concat([i \in 1..Len(ys) |->
                  IF \E j \in 1..(i - 1) : ys[j] = ys[i] THEN <<>> ELSE <<ys[i]>>])

RECURSIVE Ascending(_)
Ascending(S) ==
    IF S = {} THEN <<>>
    ELSE LET m == CHOOSE x \in S : \A y \in S : x <= y
         IN <<m>> \o Ascending(S \ {m})

RECURSIVE Descending(_)
Descending(S) ==
    IF S = {} THEN <<>>
    ELSE LET m == CHOOSE x \in S : \A y \in S : y <= x
         IN <<m>> \o Descending(S \ {m})

\* `for x in s` over a set s of account identifiers
set_order(S, seed) == IF seed = 0 THEN Ascending(S) ELSE Descending(S)

(***************************************************************************)
(* SmurfingDetectorV2 (engine/smurf_detector_v2.py).  Timestamps are in    *)
(* hours.                                                                  *)
(***************************************************************************)
\* line 23
window_hours == 72
\* main.py line 100: detect_smurfing_accounts(min_transactions=10)
min_transactions == 10
\* line 170
common_thresholds == <<10000, 5000, 3000, 1000>>

\* sorted(self.transactions, key=lambda t: t.timestamp): ascending and stable
sort_by_timestamp(T) ==
    SortDesc([i \in 1..Len(T) |-> [key |-> R(0 - T[i].timestamp), item |-> T[i]]])

\* a defaultdict(list) filled with `d[txn.from_account].append(txn)` and then
\* `d[txn.to_account].append(txn)`: the list of account a (a transfer from a to
\* itself is appended twice)
account_txns(T, a) ==
    Concat([i \in 1..Len(T) |->
               (IF T[i].from_account = a THEN <<T[i]>> ELSE <<>>)
               \o (IF T[i].to_account = a THEN <<T[i]>> ELSE <<>>)])

\* the keys of a dict touched with from_account first, or with to_account first
accounts_from_first(T) ==
    FirstSeen(Concat([i \in 1..Len(T) |-> <<T[i].from_account, T[i].to_account>>]))
accounts_to_first(T) ==
    FirstSeen(Concat([i \in 1..Len(T) |-> <<T[i].to_account, T[i].from_account>>]))

MaxOf(S) == CHOOSE x \in S : \A y \in S : y <= x
MinOfSet(S) == CHOOSE x \in S : \A y \in S : x <= y

\* lines 259-286
window_score_smurfing_behavior(txn_count, fan_in, fan_out, velocity, amount) ==
    LET count_score == IF txn_count >= 10 THEN 30 ELSE IF txn_count >= 6 THEN 20 ELSE 0
        fan_score == IF (fan_in + fan_out) * 5 < 30 THEN (fan_in + fan_out) * 5 ELSE 30
        velocity_score == IF RLess(R(1), velocity) THEN 20
                          ELSE IF RLess(Frac(1, 2), velocity) THEN 10 ELSE 0
        amount_score == IF amount > 100000
                        THEN RMin(RMul(Frac(amount, 100000), R(10)), R(20))
                        ELSE R(0)
        score == RAdd(R(count_score + fan_score + velocity_score), amount_score)
    IN RMin(score, R(100))

\* lines 120-154: the entry of one account of a window, if it gets one
window_account(txns, account_id, window_start) ==
    Bind(account_txns(txns, account_id), LAMBDA mine :
        LET fan_in == Cardinality({mine[i].from_account :
                          i \in {k \in DOMAIN mine : mine[k].to_account = account_id}})
            fan_out == Cardinality({mine[i].to_account :
                           i \in {k \in DOMAIN mine : mine[k].from_account = account_id}})
            sent == SelectSeq(mine, LAMBDA t : t.from_account = account_id)
            sent_times == {sent[i].timestamp : i \in DOMAIN sent}
            time_span == MaxOf(sent_times) - MinOfSet(sent_times)
            velocity == IF sent # <<>>
                        THEN Frac(Len(sent), MaxInt(time_span, 1))
                        ELSE R(0)
            total_amount == SumSeq([i \in DOMAIN mine |-> mine[i].amount])
        IN Bind(window_score_smurfing_behavior(Len(mine), fan_in, fan_out, velocity,
                                               total_amount),
                LAMBDA suspicious_score :
                    IF Len(mine) >= 6 /\ RLess(R(30), suspicious_score)
                    THEN <<[account_id |-> account_id, transaction_count |-> Len(mine),
                            fan_in |-> fan_in, fan_out |-> fan_out,
                            total_amount |-> total_amount, velocity |-> velocity,
                            suspicious_score |-> suspicious_score,
                            window_start |-> window_start]>>
                    ELSE <<>>))

\* lines 110-156
analyze_window(txns, window_start) ==
    LET accounts == accounts_from_first(txns)
    IN Concat([k \in 1..Len(accounts) |-> window_account(txns, accounts[k], window_start)])

\* max(windows, key=suspicious_score): the first window of the highest score
best_window(windows) ==
    windows[CHOOSE i \in DOMAIN windows :
               \A j \in DOMAIN windows :
                   /\ j < i => RLess(windows[j].suspicious_score, windows[i].suspicious_score)
                   /\ j > i => ~RLess(windows[i].suspicious_score, windows[j].suspicious_score)]

\* a variant of window_from that skips no window
window_from_unskipped(sorted_txns, start_idx, min_txns) ==
    Bind(SelectSeq(SubSeq(sorted_txns, start_idx, Len(sorted_txns)),
                   LAMBDA t : t.timestamp <= sorted_txns[start_idx].timestamp + window_hours),
         LAMBDA window_txns :
             analyze_window(window_txns, sorted_txns[start_idx].timestamp))

\* lines 84-99: the entries of the window that starts at sorted_txns[start_idx]
window_from(sorted_txns, start_idx, min_txns) ==
    Bind(SelectSeq(SubSeq(sorted_txns, start_idx, Len(sorted_txns)),
                   LAMBDA t : t.timestamp <= sorted_txns[start_idx].timestamp + window_hours),
         LAMBDA window_txns :
             IF Len(window_txns) < min_txns THEN <<>>
             ELSE analyze_window(window_txns, sorted_txns[start_idx].timestamp))

\* lines 101-108: the best window of every account, in the order the accounts
\* entered account_alerts
consolidate_windows(account_alerts) ==
    LET accounts == FirstSeen([i \in 1..Len(account_alerts) |-> account_alerts[i].account_id])
    IN AsList([k \in 1..Len(accounts) |->
                  best_window(SelectSeq(account_alerts,
                                        LAMBDA w : w.account_id = accounts[k]))])

\* lines 73-108
analyze_sliding_windows(T, min_txns) ==
    IF T = <<>> THEN <<>>
    ELSE Bind(sort_by_timestamp(T), LAMBDA sorted_txns :
             consolidate_windows(
                 Concat([start_idx \in 1..Len(sorted_txns) |->
                            window_from(sorted_txns, start_idx, min_txns)])))

\* a variant of structuring_of that counts an amount equal to the threshold
structuring_of_inclusive(T, account_id) ==
    LET mine == account_txns(T, account_id)
        amounts == [i \in DOMAIN mine |-> mine[i].amount]
        total_count == Len(amounts)
        below_threshold(threshold) ==
            Cardinality({i \in DOMAIN amounts :
                            9 * threshold < 10 * amounts[i] /\ amounts[i] <= threshold})
    IN IF total_count < 5 THEN <<>>
       ELSE Concat([k \in DOMAIN common_thresholds |->
                LET threshold == common_thresholds[k]
                    rate == Frac(below_threshold(threshold), total_count)
                IN IF total_count > 0 /\ RLess(Frac(4, 10), rate)
                   THEN <<[account_id |-> account_id, pattern |-> "structuring",
                           threshold |-> threshold, below_threshold_rate |-> rate,
                           suspicious_score |-> RMul(rate, R(100))]>>
                   ELSE <<>>])

\* lines 172-189: the patterns of one account
structuring_of(T, account_id) ==
    LET mine == account_txns(T, account_id)
        amounts == [i \in DOMAIN mine |-> mine[i].amount]
        total_count == Len(amounts)
        below_threshold(threshold) ==
            Cardinality({i \in DOMAIN amounts :
                            9 * threshold < 10 * amounts[i] /\ amounts[i] < threshold})
    IN IF total_count < 5 THEN <<>>
       ELSE Concat([k \in DOMAIN common_thresholds |->
                LET threshold == common_thresholds[k]
                    rate == Frac(below_threshold(threshold), total_count)
                IN IF total_count > 0 /\ RLess(Frac(4, 10), rate)
                   THEN <<[account_id |-> account_id, pattern |-> "structuring",
                           threshold |-> threshold, below_threshold_rate |-> rate,
                           suspicious_score |-> RMul(rate, R(100))]>>
                   ELSE <<>>])

\* lines 158-191
detect_structuring_patterns(T) ==
    LET accounts == accounts_from_first(T)
    IN Concat([k \in 1..Len(accounts) |-> structuring_of(T, accounts[k])])

\* lines 205-223: the pattern of one account, if it has one
consolidation_of(T, account_id) ==
    LET inbound == SelectSeq(T, LAMBDA t : t.to_account = account_id)
        outbound == SelectSeq(T, LAMBDA t : t.from_account = account_id)
        total_in == SumSeq([i \in DOMAIN inbound |-> inbound[i].amount])
        max_out == MaxOf({outbound[i].amount : i \in DOMAIN outbound})
    IN IF /\ Len(inbound) >= 3
          /\ Len(outbound) >= 1
          /\ 9 * total_in <= 10 * max_out
          /\ 10 * max_out <= 11 * total_in
       THEN <<[account_id |-> account_id, pattern |-> "consolidation",
               inbound_count |-> Len(inbound), total_inbound |-> total_in,
               max_outbound |-> max_out,
               suspicious_score |-> RMul(Frac(Len(inbound), 10), R(100))]>>
       ELSE <<>>

\* lines 193-225
detect_consolidation(T) ==
    LET accounts == accounts_to_first(T)
    IN Concat([k \in 1..Len(accounts) |-> consolidation_of(T, accounts[k])])

\* a variant of fan_of that takes a volume of 20000 for high
fan_of_inclusive(T, account_id, min_in, min_out) ==
    LET fan_in == Cardinality({T[i].from_account :
                                  i \in {k \in DOMAIN T : T[k].to_account = account_id}})
        fan_out == Cardinality({T[i].to_account :
                                   i \in {k \in DOMAIN T : T[k].from_account = account_id}})
        mine == account_txns(T, account_id)
        volume == SumSeq([i \in DOMAIN mine |-> mine[i].amount])
        fan_score == (fan_in + fan_out) * 10
    IN IF (fan_in >= min_in \/ fan_out >= min_out) /\ volume >= 20000
       THEN <<[account_id |-> account_id, pattern |-> "high_fan", fan_in |-> fan_in,
               fan_out |-> fan_out, total_volume |-> volume,
               suspicious_score |-> R(IF fan_score < 100 THEN fan_score ELSE 100)]>>
       ELSE <<>>

\* lines 240-255: the pattern of one account, if it has one
fan_of(T, account_id, min_in, min_out) ==
    LET fan_in == Cardinality({T[i].from_account :
                                  i \in {k \in DOMAIN T : T[k].to_account = account_id}})
        fan_out == Cardinality({T[i].to_account :
                                   i \in {k \in DOMAIN T : T[k].from_account = account_id}})
        mine == account_txns(T, account_id)
        volume == SumSeq([i \in DOMAIN mine |-> mine[i].amount])
        fan_score == (fan_in + fan_out) * 10
    IN IF (fan_in >= min_in \/ fan_out >= min_out) /\ volume > 20000
       THEN <<[account_id |-> account_id, pattern |-> "high_fan", fan_in |-> fan_in,
               fan_out |-> fan_out, total_volume |-> volume,
               suspicious_score |-> R(IF fan_score < 100 THEN fan_score ELSE 100)]>>
       ELSE <<>>

\* lines 227-257
analyze_fan_patterns(T, min_in, min_out) ==
    LET accounts == accounts_to_first(T)
    IN Concat([k \in 1..Len(accounts) |-> fan_of(T, accounts[k], min_in, min_out)])

structuring_tag(threshold) ==
    CASE threshold = 10000 -> "structuring_10000"
      [] threshold = 5000 -> "structuring_5000"
      [] threshold = 3000 -> "structuring_3000"
      [] threshold = 1000 -> "structuring_1000"

RECURSIVE RMaxOver(_, _)
RMaxOver(xs, start) == IF xs = <<>> THEN start ELSE RMaxOver(Tail(xs), RMax(start, xs[1]))

RECURSIVE MaxIntOver(_, _)
MaxIntOver(xs, start) == IF xs = <<>> THEN start ELSE MaxIntOver(Tail(xs), MaxInt(start, xs[1]))

\* a variant of create_smurfing_alert that starts the fan counts from those of the window
create_smurfing_alert_window_fan(T, account_id, windows, structuring, consolidation, fan) ==
    LET w == SelectSeq(windows, LAMBDA x : x.account_id = account_id)
        s == SelectSeq(structuring, LAMBDA x : x.account_id = account_id)
        c == SelectSeq(consolidation, LAMBDA x : x.account_id = account_id)
        f == SelectSeq(fan, LAMBDA x : x.account_id = account_id)
        patterns == [i \in DOMAIN w |-> "high_frequency"]
                    \o [i \in DOMAIN s |-> structuring_tag(s[i].threshold)]
                    \o [i \in DOMAIN c |-> "consolidation"]
                    \o [i \in DOMAIN f |-> "high_fan"]
        \* lines 305-311: max(total, score) for each window, from 0
        after_windows == RMaxOver([i \in DOMAIN w |-> w[i].suspicious_score], R(0))
        \* lines 314-330: += score for every other pattern
        total == RAdd(after_windows,
                      RSum([i \in DOMAIN s |-> s[i].suspicious_score]
                           \o [i \in DOMAIN c |-> c[i].suspicious_score]
                           \o [i \in DOMAIN f |-> f[i].suspicious_score]))
        touching == SelectSeq(T, LAMBDA t : t.from_account = account_id
                                             \/ t.to_account = account_id)
        window_count == IF w = <<>> THEN 0 ELSE w[Len(w)].transaction_count
        window_amount == IF w = <<>> THEN 0 ELSE w[Len(w)].total_amount
        fan_amount == MaxIntOver([i \in DOMAIN f |-> f[i].total_volume], window_amount)
        backfill == window_count = 0 /\ patterns # <<>>
    IN IF patterns = <<>> THEN <<>>
       ELSE <<[account_id |-> account_id,
               transaction_count |-> IF backfill THEN Len(touching) ELSE window_count,
               time_window_hours |-> 72,
               total_amount |-> IF backfill
                                THEN SumSeq([i \in DOMAIN touching |-> touching[i].amount])
                                ELSE fan_amount,
               fan_in |-> MaxIntOver([i \in DOMAIN f |-> f[i].fan_in],
                                     IF w = <<>> THEN 0 ELSE w[Len(w)].fan_in),
               fan_out |-> MaxIntOver([i \in DOMAIN f |-> f[i].fan_out],
                                      IF w = <<>> THEN 0 ELSE w[Len(w)].fan_out),
               risk_score |-> RMin(RDiv(total, R(Len(patterns))), R(100)),
               patterns |-> patterns,
               total_suspicious_score |-> total,
               pattern_count |-> Len(patterns)]>>

\* a variant of create_smurfing_alert that keeps the total amount of the window
create_smurfing_alert_window_amount(T, account_id, windows, structuring, consolidation, fan) ==
    LET w == SelectSeq(windows, LAMBDA x : x.account_id = account_id)
        s == SelectSeq(structuring, LAMBDA x : x.account_id = account_id)
        c == SelectSeq(consolidation, LAMBDA x : x.account_id = account_id)
        f == SelectSeq(fan, LAMBDA x : x.account_id = account_id)
        patterns == [i \in DOMAIN w |-> "high_frequency"]
                    \o [i \in DOMAIN s |-> structuring_tag(s[i].threshold)]
                    \o [i \in DOMAIN c |-> "consolidation"]
                    \o [i \in DOMAIN f |-> "high_fan"]
        \* lines 305-311: max(total, score) for each window, from 0
        after_windows == RMaxOver([i \in DOMAIN w |-> w[i].suspicious_score], R(0))
        \* lines 314-330: += score for every other pattern
        total == RAdd(after_windows,
                      RSum([i \in DOMAIN s |-> s[i].suspicious_score]
                           \o [i \in DOMAIN c |-> c[i].suspicious_score]
                           \o [i \in DOMAIN f |-> f[i].suspicious_score]))
        touching == SelectSeq(T, LAMBDA t : t.from_account = account_id
                                             \/ t.to_account = account_id)
        window_count == IF w = <<>> THEN 0 ELSE w[Len(w)].transaction_count
        window_amount == IF w = <<>> THEN 0 ELSE w[Len(w)].total_amount
        fan_amount == MaxIntOver([i \in DOMAIN f |-> f[i].total_volume], window_amount)
        backfill == window_count = 0 /\ patterns # <<>>
    IN IF patterns = <<>> THEN <<>>
       ELSE <<[account_id |-> account_id,
               transaction_count |-> IF backfill THEN Len(touching) ELSE window_count,
               time_window_hours |-> 72,
               total_amount |-> IF backfill
                                THEN SumSeq([i \in DOMAIN touching |-> touching[i].amount])
                                ELSE window_amount,
               fan_in |-> MaxIntOver([i \in DOMAIN f |-> f[i].fan_in], 0),
               fan_out |-> MaxIntOver([i \in DOMAIN f |-> f[i].fan_out], 0),
               risk_score |-> RMin(RDiv(total, R(Len(patterns))), R(100)),
               patterns |-> patterns,
               total_suspicious_score |-> total,
               pattern_count |-> Len(patterns)]>>

\* a variant of create_smurfing_alert whose total keeps only the largest score
create_smurfing_alert_max(T, account_id, windows, structuring, consolidation, fan) ==
    LET w == SelectSeq(windows, LAMBDA x : x.account_id = account_id)
        s == SelectSeq(structuring, LAMBDA x : x.account_id = account_id)
        c == SelectSeq(consolidation, LAMBDA x : x.account_id = account_id)
        f == SelectSeq(fan, LAMBDA x : x.account_id = account_id)
        patterns == [i \in DOMAIN w |-> "high_frequency"]
                    \o [i \in DOMAIN s |-> structuring_tag(s[i].threshold)]
                    \o [i \in DOMAIN c |-> "consolidation"]
                    \o [i \in DOMAIN f |-> "high_fan"]
        total == RMaxOver([i \in DOMAIN w |-> w[i].suspicious_score]
                          \o [i \in DOMAIN s |-> s[i].suspicious_score]
                          \o [i \in DOMAIN c |-> c[i].suspicious_score]
                          \o [i \in DOMAIN f |-> f[i].suspicious_score], R(0))
        touching == SelectSeq(T, LAMBDA t : t.from_account = account_id
                                             \/ t.to_account = account_id)
        window_count == IF w = <<>> THEN 0 ELSE w[Len(w)].transaction_count
        window_amount == IF w = <<>> THEN 0 ELSE w[Len(w)].total_amount
        fan_amount == MaxIntOver([i \in DOMAIN f |-> f[i].total_volume], window_amount)
        backfill == window_count = 0 /\ patterns # <<>>
    IN IF patterns = <<>> THEN <<>>
       ELSE <<[account_id |-> account_id,
               transaction_count |-> IF backfill THEN Len(touching) ELSE window_count,
               time_window_hours |-> 72,
               total_amount |-> IF backfill
                                THEN SumSeq([i \in DOMAIN touching |-> touching[i].amount])
                                ELSE fan_amount,
               fan_in |-> MaxIntOver([i \in DOMAIN f |-> f[i].fan_in], 0),
               fan_out |-> MaxIntOver([i \in DOMAIN f |-> f[i].fan_out], 0),
               risk_score |-> RMin(RDiv(total, R(Len(patterns))), R(100)),
               patterns |-> patterns,
               total_suspicious_score |-> total,
               pattern_count |-> Len(patterns)]>>

\* lines 288-343: the alert of an account, or none
create_smurfing_alert(T, account_id, windows, structuring, consolidation, fan) ==
    LET w == SelectSeq(windows, LAMBDA x : x.account_id = account_id)
        s == SelectSeq(structuring, LAMBDA x : x.account_id = account_id)
        c == SelectSeq(consolidation, LAMBDA x : x.account_id = account_id)
        f == SelectSeq(fan, LAMBDA x : x.account_id = account_id)
        patterns == [i \in DOMAIN w |-> "high_frequency"]
                    \o [i \in DOMAIN s |-> structuring_tag(s[i].threshold)]
                    \o [i \in DOMAIN c |-> "consolidation"]
                    \o [i \in DOMAIN f |-> "high_fan"]
        \* lines 305-311: max(total, score) for each window, from 0
        after_windows == RMaxOver([i \in DOMAIN w |-> w[i].suspicious_score], R(0))
        \* lines 314-330: += score for every other pattern
        total == RAdd(after_windows,
                      RSum([i \in DOMAIN s |-> s[i].suspicious_score]
                           \o [i \in DOMAIN c |-> c[i].suspicious_score]
                           \o [i \in DOMAIN f |-> f[i].suspicious_score]))
        touching == SelectSeq(T, LAMBDA t : t.from_account = account_id
                                             \/ t.to_account = account_id)
        window_count == IF w = <<>> THEN 0 ELSE w[Len(w)].transaction_count
        window_amount == IF w = <<>> THEN 0 ELSE w[Len(w)].total_amount
        fan_amount == MaxIntOver([i \in DOMAIN f |-> f[i].total_volume], window_amount)
        backfill == window_count = 0 /\ patterns # <<>>
    IN IF patterns = <<>> THEN <<>>
       ELSE <<[account_id |-> account_id,
               transaction_count |-> IF backfill THEN Len(touching) ELSE window_count,
               time_window_hours |-> 72,
               total_amount |-> IF backfill
                                THEN SumSeq([i \in DOMAIN touching |-> touching[i].amount])
                                ELSE fan_amount,
               fan_in |-> MaxIntOver([i \in DOMAIN f |-> f[i].fan_in], 0),
               fan_out |-> MaxIntOver([i \in DOMAIN f |-> f[i].fan_out], 0),
               risk_score |-> RMin(RDiv(total, R(Len(patterns))), R(100)),
               patterns |-> patterns,
               total_suspicious_score |-> total,
               pattern_count |-> Len(patterns)]>>

\* lines 48-71: one alert for every account of a pattern, highest risk first;
\* `seed` fixes the iteration order of the set all_accounts
combine_patterns(T, suspicious_from_windows, structuring_patterns, consolidation_patterns, fan_patterns, seed) ==
    LET found == suspicious_from_windows \o structuring_patterns
                 \o consolidation_patterns \o fan_patterns
        all_accounts == {found[i].account_id : i \in DOMAIN found}
        order == set_order(all_accounts, seed)
    IN Bind(Concat([k \in 1..Len(order) |->
                       create_smurfing_alert(T, order[k], suspicious_from_windows,
                                             structuring_patterns, consolidation_patterns,
                                             fan_patterns)]),
            LAMBDA results :
                SortDesc([i \in 1..Len(results) |->
                             [key |-> results[i].risk_score, item |-> results[i]]]))

\* lines 26-71
detect_smurfing_accounts(T, min_txns, seed) ==
    combine_patterns(T, analyze_sliding_windows(T, min_txns),
                     detect_structuring_patterns(T), detect_consolidation(T),
                     analyze_fan_patterns(T, 3, 3), seed)

(***************************************************************************)
(* ShellAccountDetectorV2 (engine/shell_detector_v2.py).                   *)
(***************************************************************************)
\* main.py line 117: detect_shell_accounts(max_transactions=5, min_total_value=50000)
max_transactions == 5
min_total_value == 50000

\* statistics.mean and statistics.variance (the sample variance) of a list of
\* integers
Mean(xs) == Frac(SumSeq(xs), Len(xs))
Variance(xs) ==
    LET m == Mean(xs)
        squares == [i \in DOMAIN xs |-> RMul(RSub(R(xs[i]), m), RSub(R(xs[i]), m))]
    IN RDiv(RSum(squares), R(Len(xs) - 1))

\* (variance ** 0.5) / mean < c for a positive mean and c = num/den, compared
\* without the square root: variance < (c * mean)^2
CvBelow(xs, num, den) ==
    RLess(Variance(xs), RMul(RMul(Frac(num, den), Mean(xs)), RMul(Frac(num, den), Mean(xs))))

RECURSIVE GCDOver(_, _)
GCDOver(xs, g) == IF xs = <<>> THEN g ELSE GCDOver(Tail(xs), GCD(xs[1], g))

\* The amounts divided by their greatest common divisor: the coefficient of
\* variation of a list does not change when every element is divided by the
\* same number, and the squares then stay small.
Reduced(xs) ==
    LET g == GCDOver(xs, 0) IN IF g = 0 THEN xs ELSE [i \in DOMAIN xs |-> xs[i] \div g]

\* lines 26-61: the entry of one account in account_stats (a transfer from an
\* account to itself is recorded on both sides)
comprehensive_stats(T, a) ==
    LET mine == account_txns(T, a)
        outbound == SelectSeq(T, LAMBDA t : t.from_account = a)
        inbound == SelectSeq(T, LAMBDA t : t.to_account = a)
    IN [transactions |-> mine,
        total_out |-> SumSeq([i \in DOMAIN outbound |-> outbound[i].amount]),
        total_in |-> SumSeq([i \in DOMAIN inbound |-> inbound[i].amount]),
        unique_destinations |-> {outbound[i].to_account : i \in DOMAIN outbound},
        unique_sources |-> {inbound[i].from_account : i \in DOMAIN inbound},
        timestamps |-> [i \in DOMAIN mine |-> mine[i].timestamp],
        amounts |-> [i \in DOMAIN mine |-> mine[i].amount],
        outbound |-> outbound,
        inbound |-> inbound]

\* lines 153-170
score_pass_through(total_in, total_out) ==
    IF total_in = 0 \/ total_out = 0 THEN 0
    ELSE LET lo == IF total_out < total_in THEN total_out ELSE total_in
             hi == IF total_out < total_in THEN total_in ELSE total_out
             ratio == Frac(lo, hi)
             diff == Abs(total_in - total_out)
         IN IF RLess(Frac(95, 100), ratio) /\ RLess(R(diff), RMul(R(hi), Frac(5, 100)))
            THEN 25
            ELSE IF RLess(Frac(90, 100), ratio) THEN 15
            ELSE IF RLess(Frac(85, 100), ratio) THEN 8
            ELSE 0

\* lines 172-194
score_connection_pattern(unique_sources, unique_destinations, txn_count) ==
    LET from_sources == IF unique_sources = 1 /\ txn_count >= 3 THEN 10
                        ELSE IF unique_sources <= 2 /\ txn_count >= 5 THEN 8 ELSE 0
        from_destinations == IF unique_destinations = 1 /\ txn_count >= 3 THEN 10
                             ELSE IF unique_destinations <= 2 /\ txn_count >= 5 THEN 8 ELSE 0
        connector == IF unique_sources + unique_destinations <= 3 /\ txn_count >= 4
                     THEN 7 ELSE 0
        score == from_sources + from_destinations + connector
    IN IF score < 20 THEN score ELSE 20

\* sorted(timestamps)
RECURSIVE SortedInts(_)
SortedInts(xs) ==
    IF xs = <<>> THEN <<>>
    ELSE LET k == CHOOSE i \in DOMAIN xs : \A j \in DOMAIN xs : xs[i] <= xs[j]
         IN <<xs[k]>> \o SortedInts(SubSeq(xs, 1, k - 1) \o SubSeq(xs, k + 1, Len(xs)))

\* lines 202-205: the hours between consecutive timestamps
time_gaps_of(sorted_times) ==
    [i \in 1..(Len(sorted_times) - 1) |-> sorted_times[i + 1] - sorted_times[i]]

\* lines 196-231
score_temporal_pattern(timestamps) ==
    IF Len(timestamps) < 3 THEN 0
    ELSE Bind(time_gaps_of(SortedInts(timestamps)), LAMBDA time_gaps :
             LET max_gap == MaxOf(Range(time_gaps))
                 avg_gap == Mean(time_gaps)
                 gap_idx == CHOOSE i \in DOMAIN time_gaps :
                                /\ time_gaps[i] = max_gap
                                /\ \A j \in 1..(i - 1) : time_gaps[j] # max_gap
                 subsequent_gaps == SubSeq(time_gaps, gap_idx + 1, Len(time_gaps))
             IN IF /\ max_gap > 168
                   /\ subsequent_gaps # <<>>
                   /\ RLess(Mean(subsequent_gaps), R(24))
                THEN 15
                ELSE IF RLess(R(0), avg_gap) /\ CvBelow(time_gaps, 1, 2) THEN 12
                ELSE 0)

\* lines 233-252
score_flow_direction(inbound_count, outbound_count, total_count) ==
    IF inbound_count = 0 /\ outbound_count > 2 THEN 12
    ELSE IF outbound_count = 0 /\ inbound_count > 2 THEN 12
    ELSE IF /\ total_count > 0
            /\ \/ RLess(Frac(9, 10), Frac(inbound_count, total_count))
               \/ RLess(Frac(9, 10), Frac(outbound_count, total_count))
         THEN 8
         ELSE 0

\* lines 254-275
score_amount_uniformity(amounts) ==
    IF Len(amounts) < 3 THEN 0
    ELSE IF SumSeq(amounts) = 0 THEN 0
    ELSE IF RLess(R(0), Mean(amounts))
         THEN Bind(Reduced(amounts), LAMBDA scaled :
                  IF CvBelow(scaled, 2, 10) THEN 5
                  ELSE IF CvBelow(scaled, 4, 10) THEN 3
                  ELSE 0)
         ELSE 5

\* lines 337-346
shell_risk_level(score) ==
    IF RLeq(R(80), score) THEN "CRITICAL"
    ELSE IF RLeq(R(60), score) THEN "HIGH"
    ELSE IF RLeq(R(40), score) THEN "MEDIUM"
    ELSE "LOW"

\* a variant of calculate_account_risk_profile that adds the pass-through factor unweighted
calculate_account_risk_profile_unweighted(account_id, stats) ==
    LET txn_count == Len(stats.transactions)
        total_in == stats.total_in
        total_out == stats.total_out
        total_throughput == total_in + total_out
        avg_value == IF txn_count > 0 THEN Frac(total_throughput, txn_count) ELSE R(0)
    IN Bind([high_value |-> RMin(RMul(RDiv(avg_value, R(10000)), R(20)), R(20)),
             pass_through |-> score_pass_through(total_in, total_out),
             connection |-> score_connection_pattern(Cardinality(stats.unique_sources),
                                                     Cardinality(stats.unique_destinations),
                                                     txn_count),
             dormancy |-> score_temporal_pattern(stats.timestamps),
             directionality |-> score_flow_direction(Len(stats.inbound), Len(stats.outbound),
                                                     txn_count),
             uniformity |-> score_amount_uniformity(stats.amounts)],
            LAMBDA factor :
                Bind(RSum(<<RMul(factor.high_value, Frac(20, 100)),
                            RMul(R(factor.pass_through), R(1)),
                            RMul(R(factor.connection), Frac(20, 100)),
                            RMul(R(factor.dormancy), Frac(15, 100)),
                            RMul(R(factor.directionality), Frac(15, 100)),
                            RMul(R(factor.uniformity), Frac(5, 100))>>),
                     LAMBDA shell_score :
                         [account_id |-> account_id,
                          total_transactions |-> txn_count,
                          total_throughput |-> total_throughput,
                          total_in |-> total_in,
                          total_out |-> total_out,
                          avg_transaction_value |-> avg_value,
                          unique_sources |-> Cardinality(stats.unique_sources),
                          unique_destinations |-> Cardinality(stats.unique_destinations),
                          inbound_count |-> Len(stats.inbound),
                          outbound_count |-> Len(stats.outbound),
                          high_value_score |-> factor.high_value,
                          pass_through_score |-> factor.pass_through,
                          connection_score |-> factor.connection,
                          dormancy_score |-> factor.dormancy,
                          directionality_score |-> factor.directionality,
                          uniformity_score |-> factor.uniformity,
                          shell_score |-> RMin(shell_score, R(100)),
                          risk_level |-> shell_risk_level(shell_score)]))

\* lines 86-151 (the fields the detector and the report use)
calculate_account_risk_profile(account_id, stats) ==
    LET txn_count == Len(stats.transactions)
        total_in == stats.total_in
        total_out == stats.total_out
        total_throughput == total_in + total_out
        avg_value == IF txn_count > 0 THEN Frac(total_throughput, txn_count) ELSE R(0)
    IN Bind([high_value |-> RMin(RMul(RDiv(avg_value, R(10000)), R(20)), R(20)),
             pass_through |-> score_pass_through(total_in, total_out),
             connection |-> score_connection_pattern(Cardinality(stats.unique_sources),
                                                     Cardinality(stats.unique_destinations),
                                                     txn_count),
             dormancy |-> score_temporal_pattern(stats.timestamps),
             directionality |-> score_flow_direction(Len(stats.inbound), Len(stats.outbound),
                                                     txn_count),
             uniformity |-> score_amount_uniformity(stats.amounts)],
            LAMBDA factor :
                Bind(RSum(<<RMul(factor.high_value, Frac(20, 100)),
                            RMul(R(factor.pass_through), Frac(25, 100)),
                            RMul(R(factor.connection), Frac(20, 100)),
                            RMul(R(factor.dormancy), Frac(15, 100)),
                            RMul(R(factor.directionality), Frac(15, 100)),
                            RMul(R(factor.uniformity), Frac(5, 100))>>),
                     LAMBDA shell_score :
                         [account_id |-> account_id,
                          total_transactions |-> txn_count,
                          total_throughput |-> total_throughput,
                          total_in |-> total_in,
                          total_out |-> total_out,
                          avg_transaction_value |-> avg_value,
                          unique_sources |-> Cardinality(stats.unique_sources),
                          unique_destinations |-> Cardinality(stats.unique_destinations),
                          inbound_count |-> Len(stats.inbound),
                          outbound_count |-> Len(stats.outbound),
                          high_value_score |-> factor.high_value,
                          pass_through_score |-> factor.pass_through,
                          connection_score |-> factor.connection,
                          dormancy_score |-> factor.dormancy,
                          directionality_score |-> factor.directionality,
                          uniformity_score |-> factor.uniformity,
                          shell_score |-> RMin(shell_score, R(100)),
                          risk_level |-> shell_risk_level(shell_score)]))

\* lines 74-81: the tests of one account of account_stats
keep_candidate(txn_count, total_throughput, risk_profile, max_txns, min_value) ==
    IF /\ txn_count <= max_txns
       /\ total_throughput >= min_value
       /\ RLess(R(40), risk_profile.shell_score)
    THEN <<risk_profile>>
    ELSE <<>>

\* a variant of shell_candidate that skips the test of the composite score
shell_candidate_unscored(T, account_id, max_txns, min_value) ==
    Bind(comprehensive_stats(T, account_id), LAMBDA stats :
        IF /\ Len(stats.transactions) <= max_txns
           /\ stats.total_in + stats.total_out >= min_value
        THEN <<calculate_account_risk_profile(account_id, stats)>>
        ELSE <<>>)

\* lines 70-81: the profile of one account, if the detector keeps it
shell_candidate(T, account_id, max_txns, min_value) ==
    Bind(comprehensive_stats(T, account_id), LAMBDA stats :
        keep_candidate(Len(stats.transactions), stats.total_in + stats.total_out,
                       calculate_account_risk_profile(account_id, stats),
                       max_txns, min_value))

\* lines 63-84
detect_shell_accounts(T, max_txns, min_value) ==
    LET accounts == accounts_from_first(T)
    IN Bind(Concat([k \in 1..Len(accounts) |->
                       shell_candidate(T, accounts[k], max_txns, min_value)]),
            LAMBDA kept :
                SortDesc([i \in 1..Len(kept) |->
                             [key |-> kept[i].shell_score, item |-> kept[i]]]))

(***************************************************************************)
(* SuspicionScorer (utils/scoring.py).  Counts are integers; amounts and   *)
(* scores are rationals.                                                   *)
(***************************************************************************)
\* max(0, min(100, x))
Clamp100(x) == RMax(R(0), RMin(R(100), x))

\* a variant of score_ring_participation that returns the boosted score as it is
score_ring_participation_unclamped(ring_count, total_rings, ring_amounts) ==
    IF ring_count = 0 THEN R(0)
    ELSE LET participation_ratio == Frac(ring_count, MaxInt(total_rings, 1))
             base_score == RMin(R(100), RMul(participation_ratio, R(100)))
             avg_ring_amount == IF ring_amounts # <<>>
                                THEN RDiv(RSum(ring_amounts), R(Len(ring_amounts)))
                                ELSE R(0)
             amount_factor == RMin(Frac(3, 2), RAdd(R(1), RDiv(avg_ring_amount, R(1000000))))
         IN RMul(base_score, amount_factor)

\* lines 95-117
score_ring_participation(ring_count, total_rings, ring_amounts) ==
    IF ring_count = 0 THEN R(0)
    ELSE LET participation_ratio == Frac(ring_count, MaxInt(total_rings, 1))
             base_score == RMin(R(100), RMul(participation_ratio, R(100)))
             avg_ring_amount == IF ring_amounts # <<>>
                                THEN RDiv(RSum(ring_amounts), R(Len(ring_amounts)))
                                ELSE R(0)
             amount_factor == RMin(Frac(3, 2), RAdd(R(1), RDiv(avg_ring_amount, R(1000000))))
             score == RMul(base_score, amount_factor)
         IN Clamp100(score)

\* lines 119-146
score_smurfing_behavior(transaction_count, fan_in, fan_out, total_amount) ==
    IF transaction_count < 10 THEN R(0)
    ELSE LET txn_score == RMin(R(100), R((transaction_count - 10) * 2))
             total_fan == fan_in + fan_out
             fan_score == RMin(R(100), R(total_fan * 5))
             amount_score == IF RLess(R(10000), total_amount)
                             THEN RMin(R(100), RMul(RDiv(total_amount, R(100000)), R(50)))
                             ELSE R(0)
             score == RAdd(RAdd(RMul(txn_score, Frac(5, 10)), RMul(fan_score, Frac(3, 10))),
                           RMul(amount_score, Frac(2, 10)))
         IN Clamp100(score)

\* lines 148-175
score_shell_account(transaction_count, total_value, avg_transaction_value, unique_sources, unique_destinations) ==
    IF transaction_count = 0 THEN R(0)
    ELSE LET txn_score == RMax(R(0), R(100 - transaction_count * 10))
             value_score == IF RLess(R(10000), avg_transaction_value)
                            THEN RMin(R(100), RMul(RDiv(avg_transaction_value, R(100000)), R(50)))
                            ELSE R(0)
             total_connections == unique_sources + unique_destinations
             connectivity_score == RMax(R(0), R(100 - total_connections * 20))
             score == RAdd(RAdd(RMul(txn_score, Frac(4, 10)), RMul(value_score, Frac(3, 10))),
                           RMul(connectivity_score, Frac(3, 10)))
         IN Clamp100(score)

\* lines 177-214
score_flow_pattern(in_amount, out_amount, total_txns, unique_sources, unique_destinations) ==
    IF total_txns = 0 THEN R(0)
    ELSE LET pass_through_score ==
                 IF RLess(R(0), in_amount) /\ RLess(R(0), out_amount)
                 THEN RMul(RSub(R(1), RDiv(RMin(in_amount, out_amount),
                                           RMax(in_amount, out_amount))), R(100))
                 ELSE R(0)
             consolidation_score ==
                 IF unique_sources > unique_destinations /\ RLess(out_amount, in_amount)
                 THEN R(60)
                 ELSE IF unique_destinations > unique_sources /\ RLess(in_amount, out_amount)
                      THEN R(60)
                      ELSE R(0)
             avg_per_txn == RDiv(RAdd(in_amount, out_amount), R(total_txns))
             connectivity == Frac(unique_sources + unique_destinations, MaxInt(total_txns, 1))
             throughput_efficiency ==
                 RMin(R(100), RMul(RDiv(avg_per_txn, R(10000)),
                                   RDiv(R(1), RMax(connectivity, Frac(1, 10)))))
             score == RAdd(RAdd(RMul(pass_through_score, Frac(3, 10)),
                                RMul(consolidation_score, Frac(3, 10))),
                           RMul(throughput_efficiency, Frac(4, 10)))
         IN Clamp100(score)

\* lines 14-19
weights ==
    [ring_involvement |-> Frac(30, 100), smurfing |-> Frac(25, 100),
     shell_account |-> Frac(25, 100), transaction_patterns |-> Frac(20, 100)]

\* a variant of get_risk_level whose bands exclude their lower edge
get_risk_level_strict(score) ==
    IF RLess(R(80), score) THEN "CRITICAL"
    ELSE IF RLess(R(60), score) THEN "HIGH"
    ELSE IF RLess(R(40), score) THEN "MEDIUM"
    ELSE "LOW"

\* lines 66-75
get_risk_level(score) ==
    IF RLeq(R(80), score) THEN "CRITICAL"
    ELSE IF RLeq(R(60), score) THEN "HIGH"
    ELSE IF RLeq(R(40), score) THEN "MEDIUM"
    ELSE "LOW"

\* lines 77-93
identify_risk_factors(scores) ==
    (IF RLess(R(50), scores.ring_involvement)
     THEN <<"Involved in financial cycles/rings">> ELSE <<>>)
    \o (IF RLess(R(50), scores.smurfing)
        THEN <<"Smurfing behavior detected (high-frequency transactions)">> ELSE <<>>)
    \o (IF RLess(R(50), scores.shell_account)
        THEN <<"Shell account characteristics (high value, few transactions)">> ELSE <<>>)
    \o (IF RLess(R(50), scores.transaction_patterns)
        THEN <<"Suspicious transaction patterns">> ELSE <<>>)

\* lines 21-64
calculate_account_score(ring_involvement, smurfing_score, shell_score, pattern_score) ==
    LET scores == [ring_involvement |-> Clamp100(ring_involvement),
                   smurfing |-> Clamp100(smurfing_score),
                   shell_account |-> Clamp100(shell_score),
                   transaction_patterns |-> Clamp100(pattern_score)]
        weighted == RAdd(RAdd(RMul(scores.ring_involvement, weights.ring_involvement),
                              RMul(scores.smurfing, weights.smurfing)),
                         RAdd(RMul(scores.shell_account, weights.shell_account),
                              RMul(scores.transaction_patterns, weights.transaction_patterns)))
        final_score == Clamp100(weighted)
    IN [base_score |-> final_score,
        ring_involvement_score |-> scores.ring_involvement,
        smurfing_score |-> scores.smurfing,
        shell_score |-> scores.shell_account,
        final_score |-> final_score,
        risk_level |-> get_risk_level(final_score),
        risk_factors |-> identify_risk_factors(scores)]

(***************************************************************************)
(* The scoring of one account in analyze (main.py lines 143-199).  `args`  *)
(* holds what the detectors returned for the account:                      *)
(*   ring_count, ring_amounts   cycle participation and ring totals        *)
(*   total_rings                len(all_cycles)                            *)
(*   account_smurfing           the account's entries of smurfing_accounts *)
(*   account_shell              the account's entries of shell_accounts    *)
(*   stats                      graph_builder.get_account_stats(account)   *)
(***************************************************************************)
\* lines 151-153
ring_score_of(args) ==
    IF args.total_rings > 0
    THEN score_ring_participation(args.ring_count, args.total_rings, args.ring_amounts)
    ELSE R(0)

\* lines 156-165
smurfing_score_of(args) ==
    IF args.account_smurfing # <<>>
    THEN LET data == args.account_smurfing[1]
         IN score_smurfing_behavior(data.transaction_count, data.fan_in, data.fan_out,
                                    data.total_amount)
    ELSE R(0)

\* a variant of shell_score_of that scores an account the detector left out
\* from the statistics of the graph
shell_score_of_unlisted(args) ==
    IF args.account_shell # <<>>
    THEN LET data == args.account_shell[1]
         IN score_shell_account(data.total_transactions, data.total_throughput,
                                data.avg_transaction_value, data.unique_sources,
                                data.unique_destinations)
    ELSE score_shell_account(args.stats.txn_count,
                             RAdd(args.stats.total_in, args.stats.total_out), R(0),
                             args.stats.in_degree, args.stats.out_degree)

\* lines 168-178
shell_score_of(args) ==
    IF args.account_shell # <<>>
    THEN LET data == args.account_shell[1]
         IN score_shell_account(data.total_transactions, data.total_throughput,
                                data.avg_transaction_value, data.unique_sources,
                                data.unique_destinations)
    ELSE R(0)

\* lines 181-189
pattern_score_of(args) ==
    score_flow_pattern(args.stats.total_in, args.stats.total_out, args.stats.txn_count,
                       args.stats.in_degree, args.stats.out_degree)

\* lines 143-199: the component scores handed to the scorer and what it returned
score_account(args) ==
    Bind([ring_score |-> ring_score_of(args),
          smurfing_score |-> smurfing_score_of(args),
          shell_score |-> shell_score_of(args),
          pattern_score |-> pattern_score_of(args)],
         LAMBDA component :
             [ring_score |-> component.ring_score,
              smurfing_score |-> component.smurfing_score,
              shell_score |-> component.shell_score,
              pattern_score |-> component.pattern_score,
              score_result |-> calculate_account_score(component.ring_score,
                                                       component.smurfing_score,
                                                       component.shell_score,
                                                       component.pattern_score)])

(***************************************************************************)
(* analyze_transactions (main.py lines 58-287): the parts of the report.   *)
(* An analysis_id is a list of digits; the text of a ring_id and of a      *)
(* description is kept as the tuple of the values it is formatted from.    *)
(***************************************************************************)
\* analysis_id[:8], the leading digits of the identifier
id_prefix(analysis_id) == Prefix(analysis_id, 1)

\* lines 85-96
make_rings(G, cs, analysis_id) ==
    AsList([i \in 1..Len(cs) |->
               LET metrics == get_cycle_metrics(G, cs[i])
               IN [ring_id |-> <<"RING", id_prefix(analysis_id), i - 1>>,
                   accounts |-> metrics.accounts,
                   length |-> metrics.length,
                   total_amount |-> metrics.total_amount,
                   detection_type |-> "cycle",
                   transactions |-> metrics.transaction_ids]])

\* lines 102-113
make_smurfing_alerts(found) ==
    AsList([i \in 1..Len(found) |->
               [account_id |-> found[i].account_id,
                transaction_count |-> found[i].transaction_count,
                time_window_hours |-> 72,
                total_amount |-> found[i].total_amount,
                fan_in |-> found[i].fan_in,
                fan_out |-> found[i].fan_out,
                risk_score |-> R(0)]])

\* lines 119-129
make_shell_alerts(found) ==
    AsList([i \in 1..Len(found) |->
               [account_id |-> found[i].account_id,
                total_transactions |-> found[i].total_transactions,
                total_throughput |-> found[i].total_throughput,
                avg_transaction_value |-> found[i].avg_transaction_value,
                risk_score |-> R(0),
                description |-> <<"Shell account", found[i].total_transactions,
                                  found[i].total_throughput>>]])

\* CycleDetectorV2.get_cycle_participation (cycle_detector_v2.py lines 180-186),
\* read at one account: participation.get(account_id, 0)
get_cycle_participation(recorded, account_id) ==
    Len(SelectSeq(Concat(recorded), LAMBDA a : a = account_id))

\* lines 144-189: what the detectors returned for one account
detector_outputs(built, found, smurfing, shell, account_id) ==
    LET in_ring == SelectSeq(found.result, LAMBDA c : account_id \in Range(c))
        of_smurfing == SelectSeq(smurfing, LAMBDA s : s.account_id = account_id)
        of_shell == SelectSeq(shell, LAMBDA s : s.account_id = account_id)
        stats == built.account_data[account_id]
    IN [ring_count |-> get_cycle_participation(found.cycles, account_id),
        total_rings |-> Len(found.result),
        ring_amounts |-> [i \in 1..Len(in_ring) |->
                             R(get_cycle_metrics(built.graph, in_ring[i]).total_amount)],
        account_smurfing |-> [i \in 1..Len(of_smurfing) |->
                                 [transaction_count |-> of_smurfing[i].transaction_count,
                                  fan_in |-> of_smurfing[i].fan_in,
                                  fan_out |-> of_smurfing[i].fan_out,
                                  total_amount |-> R(of_smurfing[i].total_amount)]],
        account_shell |-> [i \in 1..Len(of_shell) |->
                              [total_transactions |-> of_shell[i].total_transactions,
                               total_throughput |-> R(of_shell[i].total_throughput),
                               avg_transaction_value |-> of_shell[i].avg_transaction_value,
                               unique_sources |-> of_shell[i].unique_sources,
                               unique_destinations |-> of_shell[i].unique_destinations]],
        stats |-> [total_in |-> R(stats.total_in), total_out |-> R(stats.total_out),
                   txn_count |-> stats.txn_count, in_degree |-> stats.in_degree,
                   out_degree |-> stats.out_degree]]

\* lines 200-209
AccountSuspicionScore(account_id, score_result) ==
    [account_id |-> account_id,
     base_score |-> score_result.base_score,
     ring_involvement_score |-> score_result.ring_involvement_score,
     smurfing_score |-> score_result.smurfing_score,
     shell_score |-> score_result.shell_score,
     final_score |-> score_result.final_score,
     risk_level |-> score_result.risk_level,
     risk_factors |-> score_result.risk_factors]

\* the Field(ge=0, le=100) constraints of AccountSuspicionScore (schemas/results.py)
valid_scores(s) ==
    \A x \in {s.base_score, s.ring_involvement_score, s.smurfing_score, s.shell_score,
              s.final_score} : RLeq(R(0), x) /\ RLeq(x, R(100))

\* lines 213-216: the accounts of one risk level, in the order they were scored
accounts_at(account_scores, level) ==
    LET at == SelectSeq(account_scores, LAMBDA s : s.risk_level = level)
    IN [i \in 1..Len(at) |-> at[i].account_id]

\* lines 131-216: the loop over all_accounts, a set
score_accounts(built, found, smurfing, shell, seed) ==
    LET all_accounts == set_order(NodeSet(built.graph), seed)
    IN Bind(AsList([i \in 1..Len(all_accounts) |->
                       AccountSuspicionScore(all_accounts[i],
                           score_account(detector_outputs(built, found, smurfing, shell,
                                                          all_accounts[i])).score_result)]),
            LAMBDA account_scores :
                [account_scores |-> account_scores,
                 high_risk |-> accounts_at(account_scores, "HIGH"),
                 critical_risk |-> accounts_at(account_scores, "CRITICAL")])

\* a variant of alert_score that takes the final score of the account
alert_score_final(account_scores, alert, component) ==
    LET mine == SelectSeq(account_scores, LAMBDA s : s.account_id = alert.account_id)
    IN IF mine # <<>> THEN mine[1].final_score ELSE alert.risk_score

\* lines 220-222 and 226-228: next(s for s in account_scores if s.account_id ==
\* alert.account_id), and the component score of that entry
alert_score(account_scores, alert, component) ==
    LET mine == SelectSeq(account_scores, LAMBDA s : s.account_id = alert.account_id)
    IN IF mine # <<>>
       THEN IF component = "smurfing" THEN mine[1].smurfing_score ELSE mine[1].shell_score
       ELSE alert.risk_score

\* a variant of update_alert_scores that leaves the alerts as they were built
keep_alert_scores(alerts, account_scores, component) == alerts

\* lines 218-228
update_alert_scores(alerts, account_scores, component) ==
    AsList([i \in 1..Len(alerts) |->
               [alerts[i] EXCEPT !.risk_score = alert_score(account_scores, alerts[i],
                                                            component)]])

\* lines 230-263
make_summary(T, built, found, smurfing_alerts, shell_alerts, scoring, now) ==
    LET transaction_amounts == [i \in 1..Len(T) |-> T[i].amount]
        total_volume == SumSeq(transaction_amounts)
        sorted_amounts == SortedInts(transaction_amounts)
        suspicious_accounts == Len(scoring.high_risk) + Len(scoring.critical_risk)
        all_accounts == NodeSet(built.graph)
        ring_cycles == found.result
        accounts_with_rings == UNION {Range(c) : c \in Range(ring_cycles)}
    IN [total_accounts |-> Cardinality(all_accounts),
        total_transactions |-> Len(T),
        total_volume |-> total_volume,
        avg_transaction |-> IF T # <<>> THEN Frac(total_volume, Len(T)) ELSE R(0),
        median_transaction |-> IF T # <<>> THEN sorted_amounts[(Len(T) \div 2) + 1] ELSE 0,
        min_transaction |-> IF T # <<>> THEN sorted_amounts[1] ELSE 0,
        max_transaction |-> IF T # <<>> THEN sorted_amounts[Len(T)] ELSE 0,
        cycles_detected |-> Len(ring_cycles),
        avg_cycle_length |-> IF ring_cycles # <<>>
                             THEN Frac(SumSeq([i \in 1..Len(ring_cycles) |-> Len(ring_cycles[i])]),
                                       Len(ring_cycles))
                             ELSE R(0),
        accounts_in_rings |-> Cardinality(accounts_with_rings),
        smurfing_alerts_count |-> Len(smurfing_alerts),
        shell_accounts_count |-> Len(shell_alerts),
        high_risk_accounts |-> Len(scoring.high_risk),
        critical_accounts |-> Len(scoring.critical_risk),
        suspicious_accounts |-> suspicious_accounts,
        suspicious_percent |-> IF all_accounts # {}
                               THEN Frac(suspicious_accounts * 100, Cardinality(all_accounts))
                               ELSE R(0),
        analysis_timestamp |-> now]

\* lines 266-277
AnalysisResults(analysis_id, T, built, rings, smurfing_alerts, shell_alerts, scoring, summary) ==
    [analysis_id |-> analysis_id,
     total_accounts |-> Cardinality(NodeSet(built.graph)),
     total_transactions |-> Len(T),
     rings_detected |-> rings,
     smurfing_alerts |-> smurfing_alerts,
     shell_accounts |-> shell_alerts,
     account_scores |-> scoring.account_scores,
     high_risk_accounts |-> scoring.high_risk,
     critical_accounts |-> scoring.critical_risk,
     summary |-> summary]

\* lines 284-287: what the handler answers when the body of its try raises
handle_exception(raised) ==
    IF raised.kind = "ValueError"
    THEN [status |-> 400, detail |-> <<"Validation error", raised.detail>>]
    ELSE [status |-> 500, detail |-> <<"Analysis error", raised.detail>>]

\* lines 70-282 run alone, from the request to the report: the analysis of the
\* batch T under the identifier analysis_id, finished at the time `now`
analysis_report(T, analysis_id, now, seed) ==
    LET built == build_graph(T)
        found == find_all_cycles(built.graph, max_length, min_length)
        rings == make_rings(built.graph, found.result, analysis_id)
        smurfing == detect_smurfing_accounts(T, min_transactions, seed)
        shell == detect_shell_accounts(T, max_transactions, min_total_value)
        scoring == score_accounts(built, found, smurfing, shell, seed)
        smurfing_alerts == update_alert_scores(make_smurfing_alerts(smurfing),
                                               scoring.account_scores, "smurfing")
        shell_alerts == update_alert_scores(make_shell_alerts(shell),
                                            scoring.account_scores, "shell")
        summary == make_summary(T, built, found, smurfing_alerts, shell_alerts, scoring, now)
    IN AnalysisResults(analysis_id, T, built, rings, smurfing_alerts, shell_alerts, scoring,
                       summary)

(***************************************************************************)
(* Bounds of the model and the batches the analyses are run on.            *)
(***************************************************************************)
MaxTxns == 2            \* longest small batch
MaxRing == 6            \* longest ring of accounts in the ring batches
MaxResubmits == 1       \* times a batch is submitted again in another order
MaxSenders == 10        \* most accounts sending to the hub of a hub batch
MaxClock == 1           \* latest time the wall clock is read at

SmallAccounts == {1, 2, 3}
Amounts == {1, 2}
Timestamps == {1, 2}
ChordCounts == {0, 1, 2}

\* every choice of (from, to, amount, timestamp) for one small transaction
TxnChoices ==
    {<<f, t, a, ts>> : f \in SmallAccounts, t \in SmallAccounts,
                       a \in Amounts, ts \in Timestamps}

\* a batch from a list of choices; the id of a transaction is its place in the
\* batch as first submitted
MakeBatch(cs) ==
    AsList([i \in 1..Len(cs) |-> Txn(i, cs[i][1], cs[i][2], cs[i][3], cs[i][4])])

SmallBatches ==
    {MakeBatch(cs) : cs \in UNION {[1..k -> TxnChoices] : k \in 0..MaxTxns}}

\* accounts 1..L in a ring, 1 -> 2 -> ... -> L -> 1, or the other way round
RingChoices(L, ascending) ==
    IF ascending
    THEN [i \in 1..L |-> <<i, (i % L) + 1, 1, i>>]
    ELSE [i \in 1..L |-> <<L + 1 - i, ((2 * L - i - 1) % L) + 1, 1, i>>]

\* up to two further transactions between accounts of the ring
ChordChoices(L) ==
    UNION {[1..k -> {<<f, t, 1, 1>> : f \in 1..L, t \in 1..L}] : k \in ChordCounts}

RingBatchesOf(L) ==
    {MakeBatch(IF chords_first THEN ch \o RingChoices(L, asc) ELSE RingChoices(L, asc) \o ch) :
        asc \in BOOLEAN, chords_first \in BOOLEAN, ch \in ChordChoices(L)}

RingBatches == UNION {RingBatchesOf(L) : L \in 2..MaxRing}

\* two rings on disjoint accounts, the ring on the higher accounts submitted first
TwoRingChoices(L1, L2) ==
    [i \in 1..L1 |-> <<L2 + i, L2 + (i % L1) + 1, 1, i>>] \o RingChoices(L2, TRUE)

TwoRingBatches ==
    {MakeBatch(TwoRingChoices(L1, L2)) : L1 \in 3..MaxRing, L2 \in 3..MaxRing}

\* a chain of high_degree_prefix + 1 accounts, each but the last with one
\* out-edge: submitted first, it fills the high-degree prefix of the detector
PaddingChoices ==
    [i \in 1..high_degree_prefix |-> <<100 + i, 101 + i, 1, 1>>]

PaddedBatchesOf(L) ==
    {MakeBatch(PaddingChoices \o RingChoices(L, asc) \o ch) :
        asc \in BOOLEAN,
        ch \in {<<>>} \cup {<<c>> : c \in {<<f, t, 1, 1>> : f \in 1..L, t \in {1, L}}}}

PaddedBatches == UNION {PaddedBatchesOf(L) : L \in 2..MaxRing}

\* every ordered pair of distinct accounts among six, in a batch: more than
\* top_k cycles.  The amount is 1, or grows with the receiver.
DenseAccounts == 1..6
DensePairs ==
    LET n == Cardinality(DenseAccounts)
        all == [i \in 1..(n * n) |-> <<((i - 1) \div n) + 1, ((i - 1) % n) + 1>>]
    IN SelectSeq(all, LAMBDA q : q[1] # q[2])

DenseBatches ==
    {MakeBatch([i \in 1..Len(DensePairs) |->
                   <<DensePairs[i][1], DensePairs[i][2],
                     IF graded THEN DensePairs[i][2] ELSE 1, 1>>]) : graded \in BOOLEAN}

CycleBatches == RingBatches \cup TwoRingBatches \cup PaddedBatches \cup DenseBatches

\* the orders a batch is submitted again in
Reverse(T) == AsList([i \in 1..Len(T) |-> T[Len(T) + 1 - i]])
RotateLeft(T) == IF T = <<>> THEN T ELSE Tail(T) \o <<T[1]>>
SwapFirstTwo(T) == IF Len(T) < 2 THEN T ELSE <<T[2], T[1]>> \o SubSeq(T, 3, Len(T))
Reorderings(T) == {Reverse(T), RotateLeft(T), SwapFirstTwo(T)}

PermutedBatches == SmallBatches \cup TwoRingBatches \cup DenseBatches

\* the detector outputs the scorer is run on
NoDetection ==
    [ring_count |-> 0, total_rings |-> 0, ring_amounts |-> <<>>,
     account_smurfing |-> <<>>, account_shell |-> <<>>,
     stats |-> [total_in |-> R(0), total_out |-> R(0), txn_count |-> 0,
                in_degree |-> 0, out_degree |-> 0]]

RingDetections ==
    {[ring_count |-> q[1], total_rings |-> q[2], ring_amounts |-> ra] :
        q \in {<<0, 0>>, <<0, 2>>, <<1, 2>>, <<1, 1>>, <<3, 1>>},
        ra \in {<<>>, <<R(300)>>, <<R(400000), R(2000000)>>}}

SmurfingDetections ==
    {<<>>} \cup
    {<<[transaction_count |-> n, fan_in |-> q[1], fan_out |-> 12, total_amount |-> R(q[2])]>> :
        n \in {6, 12, 80}, q \in {<<0, 6000>>, <<20, 500000>>}}

ShellDetections ==
    {<<>>} \cup
    {<<[total_transactions |-> n, total_throughput |-> R(n * q[1]),
        avg_transaction_value |-> R(q[1]), unique_sources |-> q[2],
        unique_destinations |-> 1]>> :
        n \in {0, 2, 12}, q \in {<<9500, 7>>, <<900000, 1>>}}

FlowStats ==
    {[total_in |-> R(ti), total_out |-> R(to), txn_count |-> q[1],
      in_degree |-> q[2], out_degree |-> q[1] - q[2]] :
        ti \in {0, 300, 100000}, to \in {0, 99000, 5000000},
        q \in {<<0, 0>>, <<2, 1>>, <<30, 1>>}}

ScoreArgs ==
    {[ring_count |-> r.ring_count, total_rings |-> r.total_rings,
      ring_amounts |-> r.ring_amounts, account_smurfing |-> sm, account_shell |-> sh,
      stats |-> st] :
        r \in RingDetections, sm \in SmurfingDetections, sh \in ShellDetections,
        st \in FlowStats}

\* detector outputs that put the final score on the edge of a risk band:
\* 0.30*100 + 0.25*40 = 40, 0.30*100 + 0.25*100 + 0.25*20 = 60 and
\* 0.30*100 + 0.25*100 + 0.25*60 + 0.20*50 = 80
FullRing == [ring_count |-> 3, total_rings |-> 1, ring_amounts |-> <<R(300)>>]
SmurfingOf(n, fan_in, fan_out, amount) ==
    <<[transaction_count |-> n, fan_in |-> fan_in, fan_out |-> fan_out,
       total_amount |-> R(amount)]>>
ShellOf(n, value, sources, destinations) ==
    <<[total_transactions |-> n, total_throughput |-> R(n * value),
       avg_transaction_value |-> R(value), unique_sources |-> sources,
       unique_destinations |-> destinations]>>
BandEdgeArgs ==
    {[ring_count |-> FullRing.ring_count, total_rings |-> FullRing.total_rings,
      ring_amounts |-> FullRing.ring_amounts, account_smurfing |-> q[1],
      account_shell |-> q[2], stats |-> q[3]] :
        q \in {<<SmurfingOf(35, 5, 5, 6000), <<>>, NoDetection.stats>>,
               <<SmurfingOf(60, 10, 10, 200000), ShellOf(5, 9000, 3, 2), NoDetection.stats>>,
               <<SmurfingOf(60, 10, 10, 200000), ShellOf(1, 9000, 1, 0),
                 [total_in |-> R(3000000), total_out |-> R(2000000), txn_count |-> 2,
                  in_degree |-> 1, out_degree |-> 1]>>}}

\* scenario 1 of the specification: the triangle A -> B -> C -> A
TriangleBatch == MakeBatch(<<<<1, 2, 100, 1>>, <<2, 3, 100, 2>>, <<3, 1, 100, 3>>>>)

\* scenario 2: ten accounts send 1000 each to account 1, one an hour, and
\* account 1 then sends 10000 on
ConsolidationBatch ==
    MakeBatch([i \in 1..10 |-> <<i + 1, 1, 1000, i - 1>>] \o <<<<1, 12, 10000, 10>>>>)
\* scenario 3: account 1 sends 9500 to account 2 six times
StructuringBatch == MakeBatch([i \in 1..6 |-> <<1, 2, 9500, i - 1>>])
\* scenario 4: account 1 receives 100000 and sends 99000
ShellBatch == MakeBatch(<<<<2, 1, 100000, 0>>, <<1, 3, 99000, 1>>>>)
\* two far-apart pairs of transfers of 100000 through account 1
DormantShellBatch ==
    MakeBatch(<<<<2, 1, 100000, 0>>, <<1, 3, 100000, 200>>, <<2, 1, 100000, 201>>,
                <<1, 3, 100000, 202>>>>)
\* one transfer: nothing for any detector to find
PlainBatch == MakeBatch(<<<<1, 2, 100, 1>>>>)
\* scenario 5: account 1 sends 500 to each of twelve accounts within two hours
FanOutBatch == MakeBatch([i \in 1..12 |-> <<1, i + 1, 500, (i - 1) \div 4>>])
\* ten accounts send 2500 each to account 1, one an hour, and the first of them
\* sends 2500 more a hundred hours later
LateTransferBatch ==
    MakeBatch([i \in 1..10 |-> <<i + 1, 1, 2500, i - 1>>] \o <<<<2, 1, 2500, 100>>>>)
\* two triangles with no account in common
TwoTrianglesBatch ==
    MakeBatch(<<<<1, 2, 100, 1>>, <<2, 3, 100, 2>>, <<3, 1, 100, 3>>,
                <<4, 5, 100, 4>>, <<5, 6, 100, 5>>, <<6, 4, 100, 6>>>>)

\* n accounts send `amount` each to account 1, one an hour; account 1 then sends
\* `out` on to another account (nothing when out = 0)
HubChoices(n, amount, out) ==
    [i \in 1..n |-> <<i + 1, 1, amount, i - 1>>]
    \o (IF out > 0 THEN <<<<1, n + 2, out, n>>>> ELSE <<>>)
HubBatches ==
    UNION {{MakeBatch(HubChoices(n, amount, out)) :
                amount \in {1000, 2500, 9500}, out \in {0, 500, n * 1000}} :
           n \in 3..MaxSenders}
\* account 1 receives `received` from account 2 and sends `sent` to account 3
PassThroughBatches ==
    {MakeBatch(<<<<2, 1, received, 0>>, <<1, 3, sent, 1>>>>) :
        received \in {100000, 30000, 20000}, sent \in {99000, 30000, 10000}}
\* account 1 sends 9500 to account 2 n times, and account 2 then sends 4800 to
\* account 3 m times
ChainChoices(n, m) ==
    [i \in 1..n |-> <<1, 2, 9500, i>>] \o [i \in 1..m |-> <<2, 3, 4800, n + i>>]
ChainBatches == {MakeBatch(ChainChoices(n, m)) : n \in 5..7, m \in {0, 5, 6}}
DetectorBatches ==
    {ConsolidationBatch, StructuringBatch, ShellBatch, DormantShellBatch, PlainBatch,
     TriangleBatch, FanOutBatch, LateTransferBatch, TwoTrianglesBatch}
    \cup HubBatches \cup PassThroughBatches \cup ChainBatches

NoOutcome == [transactions |-> <<>>, graph |-> EmptyGraph, account_data |-> <<>>,
              all_cycles |-> <<>>]
NoScore == [ring_score |-> R(0), smurfing_score |-> R(0), shell_score |-> R(0),
            pattern_score |-> R(0),
            score_result |-> calculate_account_score(R(0), R(0), R(0), R(0))]

(***************************************************************************)
(* The state machine.                                                      *)
(***************************************************************************)
\* the requests of the model and the identifiers uuid4 can draw: two of the
\* identifiers start with the same digits
RequestIds == {1, 2}
AnalysisIds == {<<1, 1>>, <<1, 2>>, <<2, 1>>}

\* a request that has not been received yet, with the batch it will carry
NoRequest(T) ==
    [transactions |-> T, analysis_id |-> <<>>,
     built |-> [graph |-> EmptyGraph, account_data |-> <<>>],
     found |-> [cycles |-> <<>>, roots |-> <<>>, result |-> <<>>],
     rings |-> <<>>, smurfing_accounts |-> <<>>, smurfing_alerts |-> <<>>,
     shell_accounts |-> <<>>, shell_alerts |-> <<>>,
     scoring |-> [account_scores |-> <<>>, high_risk |-> <<>>, critical_risk |-> <<>>],
     status |-> 0, body |-> <<>>]
NoResponse == [analysis_id |-> <<>>, status |-> 0, body |-> <<>>]

\* the batches sent to POST /api/analyze
ApiBatches == {<<>>, PlainBatch, TriangleBatch, ConsolidationBatch, FanOutBatch}

InitSeeded(batches, args, seeds, sent) ==
    /\ pc = "start"
    /\ transactions \in batches
    /\ graph = EmptyGraph
    /\ account_data = <<>>
    /\ cycles = <<>>
    /\ dfs_roots = <<>>
    /\ all_cycles = <<>>
    /\ score_args \in args
    /\ account_score = NoScore
    /\ round = 0
    /\ prev = NoOutcome
    /\ hash_seed \in seeds
    /\ smurfing_accounts = <<>>
    /\ shell_accounts = <<>>
    /\ requests \in [RequestIds -> {NoRequest(T) : T \in sent}]
    /\ position = [r \in RequestIds |-> "idle"]
    /\ analysis_cache = <<>>
    /\ clock = 0
    /\ response = NoResponse

InitWith(batches, args) == InitSeeded(batches, args, {0}, {<<>>})

Init == InitWith(SmallBatches, {NoDetection})
InitCycles == InitWith(CycleBatches, {NoDetection})
InitPerm == InitWith(PermutedBatches, {NoDetection})
InitScore == InitWith({TriangleBatch}, ScoreArgs \cup BandEdgeArgs)
InitDetect == InitSeeded(DetectorBatches, {NoDetection}, {0, 1}, {<<>>})
InitApi == InitSeeded({<<>>}, {NoDetection}, {0}, ApiBatches)

\* an empty request is refused (lines 70-71); otherwise
\* GraphBuilder().build_graph(request.transactions) (lines 76-78)
BuildGraph ==
    /\ pc = "start"
    /\ IF transactions = <<>>
       THEN /\ pc' = "refused"
            /\ UNCHANGED <<graph, account_data>>
       ELSE /\ LET built == build_graph(transactions)
               IN /\ graph' = built.graph
                  /\ account_data' = built.account_data
            /\ pc' = "built"
    /\ UNCHANGED <<transactions, cycles, dfs_roots, all_cycles, score_args, account_score,
                   round, prev, smurfing_accounts, shell_accounts, hash_seed, api_vars>>

\* CycleDetectorV2(graph).find_all_cycles(max_length=5, min_length=3)
FindAllCycles ==
    /\ pc = "built"
    /\ LET found == find_all_cycles(graph, max_length, min_length)
       IN /\ cycles' = found.cycles
          /\ dfs_roots' = found.roots
          /\ all_cycles' = found.result
    /\ pc' = "cycles"
    /\ UNCHANGED <<transactions, graph, account_data, score_args, account_score, round, prev,
                   smurfing_accounts, shell_accounts, hash_seed, api_vars>>

\* SmurfingDetector(request.transactions).detect_smurfing_accounts(min_transactions=10)
DetectSmurfing ==
    /\ pc = "cycles"
    /\ smurfing_accounts' = detect_smurfing_accounts(transactions, min_transactions, hash_seed)
    /\ pc' = "smurfing"
    /\ UNCHANGED <<transactions, graph, account_data, cycles, dfs_roots, all_cycles,
                   score_args, account_score, round, prev, shell_accounts, hash_seed,
                   api_vars>>

\* ShellAccountDetector(request.transactions).detect_shell_accounts(max_transactions=5,
\* min_total_value=50000)
DetectShell ==
    /\ pc = "smurfing"
    /\ shell_accounts' = detect_shell_accounts(transactions, max_transactions, min_total_value)
    /\ pc' = "shell"
    /\ UNCHANGED <<transactions, graph, account_data, cycles, dfs_roots, all_cycles,
                   score_args, account_score, round, prev, smurfing_accounts, hash_seed,
                   api_vars>>

\* the scoring of an account from the detector outputs
ScoreAccount ==
    /\ pc = "shell"
    /\ account_score' = score_account(score_args)
    /\ pc' = "scored"
    /\ UNCHANGED <<transactions, graph, account_data, cycles, dfs_roots, all_cycles,
                   score_args, round, prev, smurfing_accounts, shell_accounts, hash_seed,
                   api_vars>>

\* the host submits the same transactions again, in another order
Resubmit ==
    /\ pc = "scored"
    /\ round < MaxResubmits
    /\ prev' = [transactions |-> transactions, graph |-> graph,
                account_data |-> account_data, all_cycles |-> all_cycles]
    /\ transactions' \in Reorderings(transactions)
    /\ round' = round + 1
    /\ pc' = "start"
    /\ UNCHANGED <<graph, account_data, cycles, dfs_roots, all_cycles, score_args,
                   account_score, smurfing_accounts, shell_accounts, hash_seed, api_vars>>

(***************************************************************************)
(* The HTTP handlers.  A POST /api/analyze request r runs the body of      *)
(* analyze_transactions on local variables, kept in requests[r]; the host  *)
(* may run several requests at a time, their steps interleaved.            *)
(***************************************************************************)
\* the identifiers uuid4 has handed out
IssuedIds == {requests[r].analysis_id : r \in RequestIds} \ {<<>>}

\* the requests once request r has been answered with an error
failed_with(reqs, r, answer) ==
    [reqs EXCEPT ![r].status = answer.status, ![r].body = answer.detail]

\* the host hands request r to analyze_transactions
Receive(r) ==
    /\ position[r] = "idle"
    /\ position' = [position EXCEPT ![r] = "analyzing"]
    /\ UNCHANGED <<run_vars, hash_seed, requests, analysis_cache, clock, response>>

\* lines 70-78: the test of the request, the identifier and the graph; the
\* HTTPException of line 71 is raised inside the try of line 69
ApiBuildGraph(r) ==
    /\ position[r] = "analyzing"
    /\ IF requests[r].transactions = <<>>
       THEN /\ requests' = failed_with(requests, r,
                                       handle_exception([kind |-> "HTTPException",
                                                         detail |-> <<400, "No transactions provided">>]))
            /\ position' = [position EXCEPT ![r] = "failed"]
       ELSE /\ \E id \in AnalysisIds \ IssuedIds :
                   requests' = [requests EXCEPT ![r].analysis_id = id,
                                                ![r].built = build_graph(requests[r].transactions)]
            /\ position' = [position EXCEPT ![r] = "built"]
    /\ UNCHANGED <<run_vars, hash_seed, analysis_cache, clock, response>>

\* lines 80-96
ApiDetectCycles(r) ==
    /\ position[r] = "built"
    /\ position' = [position EXCEPT ![r] = "cycles"]
    /\ requests' = Bind(find_all_cycles(requests[r].built.graph, max_length, min_length),
                        LAMBDA found :
                            [requests EXCEPT ![r].found = found,
                                             ![r].rings = make_rings(requests[r].built.graph,
                                                                     found.result,
                                                                     requests[r].analysis_id)])
    /\ UNCHANGED <<run_vars, hash_seed, analysis_cache, clock, response>>

\* lines 98-113
ApiDetectSmurfing(r) ==
    /\ position[r] = "cycles"
    /\ position' = [position EXCEPT ![r] = "smurfing"]
    /\ requests' = Bind(detect_smurfing_accounts(requests[r].transactions, min_transactions,
                                                 hash_seed),
                        LAMBDA found :
                            [requests EXCEPT ![r].smurfing_accounts = found,
                                             ![r].smurfing_alerts = make_smurfing_alerts(found)])
    /\ UNCHANGED <<run_vars, hash_seed, analysis_cache, clock, response>>

\* lines 115-129
ApiDetectShell(r) ==
    /\ position[r] = "smurfing"
    /\ position' = [position EXCEPT ![r] = "shell"]
    /\ requests' = Bind(detect_shell_accounts(requests[r].transactions, max_transactions,
                                              min_total_value),
                        LAMBDA found :
                            [requests EXCEPT ![r].shell_accounts = found,
                                             ![r].shell_alerts = make_shell_alerts(found)])
    /\ UNCHANGED <<run_vars, hash_seed, analysis_cache, clock, response>>

\* lines 131-228: the scores of all accounts and the scores of the alerts; an
\* AccountSuspicionScore out of its bounds raises a ValidationError, a ValueError
ApiScoreAccounts(r) ==
    /\ position[r] = "shell"
    /\ requests' =
           Bind(score_accounts(requests[r].built, requests[r].found,
                               requests[r].smurfing_accounts, requests[r].shell_accounts,
                               hash_seed),
                LAMBDA scoring :
                    IF \A i \in 1..Len(scoring.account_scores) :
                           valid_scores(scoring.account_scores[i])
                    THEN [requests EXCEPT
                             ![r].scoring = scoring,
                             ![r].smurfing_alerts =
                                 update_alert_scores(@, scoring.account_scores, "smurfing"),
                             ![r].shell_alerts =
                                 update_alert_scores(@, scoring.account_scores, "shell")]
                    ELSE failed_with(requests, r,
                                     handle_exception([kind |-> "ValueError",
                                                       detail |-> "score out of bounds"])))
    /\ position' = [position EXCEPT ![r] = IF requests'[r].status = 0 THEN "scored" ELSE "failed"]
    /\ UNCHANGED <<run_vars, hash_seed, analysis_cache, clock, response>>

\* a variant of cache_store that drops the entries the cache held
cache_store_alone(cache, analysis_id, results) ==
    [id \in {analysis_id} |-> results]

\* line 280: analysis_cache[analysis_id] = results
cache_store(cache, analysis_id, results) ==
    [id \in DOMAIN cache \cup {analysis_id} |->
        IF id = analysis_id THEN results ELSE cache[id]]

\* a variant of results_of that files the report under the leading digits of its
\* identifier
results_of_short_id(q, now) ==
    AnalysisResults(id_prefix(q.analysis_id), q.transactions, q.built, q.rings,
                    q.smurfing_alerts, q.shell_alerts, q.scoring,
                    make_summary(q.transactions, q.built, q.found, q.smurfing_alerts,
                                 q.shell_alerts, q.scoring, now))

\* lines 230-277: the report of a request whose accounts are scored
results_of(q, now) ==
    AnalysisResults(q.analysis_id, q.transactions, q.built, q.rings, q.smurfing_alerts,
                    q.shell_alerts, q.scoring,
                    make_summary(q.transactions, q.built, q.found, q.smurfing_alerts,
                                 q.shell_alerts, q.scoring, now))

\* a variant of stored that hands the report back without caching it
stored_uncached(r, results) ==
    /\ analysis_cache' = analysis_cache
    /\ requests' = [requests EXCEPT ![r].status = 200, ![r].body = results]

\* lines 280-282: the report goes into the cache and back to the caller
stored(r, results) ==
    /\ analysis_cache' = cache_store(analysis_cache, results.analysis_id, results)
    /\ requests' = [requests EXCEPT ![r].status = 200, ![r].body = results]

\* lines 230-282: the summary, stamped with the time utcnow() returns, the
\* report, the store in the cache and the answer
ApiCacheResults(r) ==
    /\ position[r] = "scored"
    /\ position' = [position EXCEPT ![r] = "done"]
    /\ \E now \in clock..MaxClock :
          /\ clock' = now
          /\ stored(r, results_of(requests[r], now))
    /\ UNCHANGED <<run_vars, hash_seed, response>>

\* get_analysis (lines 343-349): GET /api/analysis/{analysis_id}
GetAnalysis(analysis_id) ==
    /\ response' = IF analysis_id \notin DOMAIN analysis_cache
                   THEN [analysis_id |-> analysis_id, status |-> 404,
                         body |-> "Analysis not found"]
                   ELSE [analysis_id |-> analysis_id, status |-> 200,
                         body |-> analysis_cache[analysis_id]]
    /\ UNCHANGED <<run_vars, hash_seed, requests, position, analysis_cache, clock>>

\* the steps analyze_transactions takes for request r once it is received
Analyze(r) ==
    \/ ApiBuildGraph(r)
    \/ ApiDetectCycles(r)
    \/ ApiDetectSmurfing(r)
    \/ ApiDetectShell(r)
    \/ ApiScoreAccounts(r)
    \/ ApiCacheResults(r)

Next == BuildGraph \/ FindAllCycles \/ DetectSmurfing \/ DetectShell \/ ScoreAccount
NextPerm ==
    BuildGraph \/ FindAllCycles \/ DetectSmurfing \/ DetectShell \/ ScoreAccount \/ Resubmit
NextApi ==
    \/ \E r \in RequestIds : Receive(r) \/ Analyze(r)
    \/ \E id \in AnalysisIds : GetAnalysis(id)

Spec == Init /\ [][Next]_vars
SpecCycles == InitCycles /\ [][Next]_vars
SpecPerm == InitPerm /\ [][NextPerm]_vars
SpecScore == InitScore /\ [][Next]_vars
SpecDetect == InitDetect /\ [][Next]_vars
SpecApi == InitApi /\ [][NextApi]_vars
\* the positions inside analyze_transactions
Underway == {"analyzing", "built", "cycles", "smurfing", "shell", "scored"}
\* analyze_transactions moves on for request r: the steps of Analyze(r) are the
\* steps that change position[r] from a position inside the handler, and one of
\* them is possible at every such position
Advance(r) ==
    /\ position[r] \in Underway
    /\ \E p \in Underway \cup {"done", "failed"} : position' = [position EXCEPT ![r] = p]
\* a received request is run to its end: the handler has no await and no lock
SpecApiFair == SpecApi /\ \A r \in RequestIds : WF_position(Advance(r))

(***************************************************************************)
(* Properties.                                                             *)
(***************************************************************************)
\* build_graph has returned for the batch in `transactions`
Built == pc \in {"built", "cycles", "smurfing", "shell", "scored"}
\* find_all_cycles has returned for the graph in `graph`
Searched == pc \in {"cycles", "smurfing", "shell", "scored"}

TxnsOn(T, u, v) == SelectSeq(T, LAMBDA t : t.from_account = u /\ t.to_account = v)
SentBy(T, a) == SelectSeq(T, LAMBDA t : t.from_account = a)
ReceivedBy(T, a) == SelectSeq(T, LAMBDA t : t.to_account = a)
AmountsOf(ts) == [i \in 1..Len(ts) |-> ts[i].amount]
IdsOf(ts) == [i \in 1..Len(ts) |-> ts[i].id]
EdgesOf(T) == {<<T[i].from_account, T[i].to_account>> : i \in DOMAIN T}
MinOf(S) == CHOOSE x \in S : \A y \in S : x <= y

RECURSIVE SumEdgeAmounts(_, _)
SumEdgeAmounts(G, E) ==
    IF E = {} THEN 0
    ELSE LET e == CHOOSE x \in E : TRUE
         IN G.edges[e].amount + SumEdgeAmounts(G, E \ {e})

\* C1: after build_graph(T) an edge (u,v) exists iff T has a u->v transaction, and
\* its amount is the sum of the amounts of the u->v transactions, its count their
\* number and its transaction_ids their ids in input order.
C1_EdgeAggregation ==
    Built =>
        /\ DOMAIN graph.edges = EdgesOf(transactions)
        /\ \A e \in DOMAIN graph.edges :
              LET ts == TxnsOn(transactions, e[1], e[2])
              IN /\ graph.edges[e].amount = SumSeq(AmountsOf(ts))
                 /\ graph.edges[e].count = Len(ts)
                 /\ graph.edges[e].transaction_ids = IdsOf(ts)

\* an edge aggregates two transactions of different amounts
C1_Witness ==
    /\ Built
    /\ \E e \in DOMAIN graph.edges :
          /\ graph.edges[e].count = 2
          /\ graph.edges[e].amount = 3
          /\ graph.edges[e].transaction_ids = <<1, 2>>

\* C2: after build_graph(T) the timestamp of every edge (u,v) is the earliest
\* timestamp among the u->v transactions of T, whatever their order in T.
C2_EarliestTimestamp ==
    Built =>
        \A e \in DOMAIN graph.edges :
            graph.edges[e].timestamp =
                MinOf({t.timestamp : t \in Range(TxnsOn(transactions, e[1], e[2]))})

\* C3: after build_graph(T), out_degree and in_degree of every account count the
\* transactions it sent and received, and total_out and total_in are the sums of
\* the amounts of its outgoing and incoming graph edges, self-edges included.
C3_AccountAggregates ==
    Built =>
        /\ DOMAIN account_data = NodeSet(graph)
        /\ \A a \in NodeSet(graph) :
              /\ account_data[a].out_degree = Len(SentBy(transactions, a))
              /\ account_data[a].in_degree = Len(ReceivedBy(transactions, a))
              /\ account_data[a].total_out =
                    SumEdgeAmounts(graph, {e \in DOMAIN graph.edges : e[1] = a})
              /\ account_data[a].total_in =
                    SumEdgeAmounts(graph, {e \in DOMAIN graph.edges : e[2] = a})

\* an account with a self-edge that sent more transactions than it has out-edges
C3_Witness ==
    /\ Built
    /\ \E a \in NodeSet(graph) :
          /\ has_edge(graph, a, a)
          /\ account_data[a].out_degree > out_degree(graph, a)

\* Reference notions, independent of the detector: the simple paths of k
\* accounts, the closed ones, and the rotation classes of the simple directed
\* cycles of min_length..max_length accounts, each named by its least rotation.
RECURSIVE SimplePaths(_, _)
SimplePaths(G, k) ==
    IF k = 1 THEN {<<n>> : n \in NodeSet(G)}
    ELSE UNION {{Append(q, v) : v \in {w \in NodeSet(G) :
                                          has_edge(G, q[Len(q)], w) /\ w \notin Range(q)}} :
                q \in SimplePaths(G, k - 1)}

Rotations(c) == {Rotation(c, i) : i \in 0..(Len(c) - 1)}
LeastRotation(c) == CHOOSE r \in Rotations(c) : \A q \in Rotations(c) : ~LexLess(q, r)

SimpleCycleClasses(G) ==
    {LeastRotation(q) : q \in {x \in UNION {SimplePaths(G, k) : k \in min_length..max_length} :
                                  has_edge(G, x[Len(x)], x[1])}}

ClassesOf(cs) == {LeastRotation(cs[i]) : i \in DOMAIN cs}
StrengthOf(G, c) == calculate_cycle_strength(c, get_cycle_metrics(G, c))

\* C4: every cycle find_all_cycles returns has between 3 and 5 accounts, pairwise
\* distinct, and every consecutive pair, the wrap included, is an edge of the
\* graph; also when the graph has self-edges and 2-cycles.
C4_CyclesValid ==
    Searched =>
        \A i \in DOMAIN all_cycles :
            LET c == all_cycles[i]
            IN /\ Len(c) >= 3 /\ Len(c) <= 5
               /\ Cardinality(Range(c)) = Len(c)
               /\ \A k \in 1..Len(c) : has_edge(graph, c[k], c[(k % Len(c)) + 1])

\* cycles were returned for a graph with a self-edge and a 2-cycle
C4_Witness ==
    /\ Searched
    /\ all_cycles # <<>>
    /\ \E a \in NodeSet(graph) : has_edge(graph, a, a)
    /\ \E a, b \in NodeSet(graph) : a # b /\ has_edge(graph, a, b) /\ has_edge(graph, b, a)

\* C5: no two cycles of the returned list have the same least rotation.
C5_NoDuplicateClass ==
    Searched =>
        \A i, j \in DOMAIN all_cycles :
            i # j => LeastRotation(all_cycles[i]) # LeastRotation(all_cycles[j])

\* several cycles were returned and the DFS had recorded rotations of them
C5_Witness ==
    /\ Searched
    /\ Len(all_cycles) >= 2
    /\ Len(cycles) > Len(all_cycles)

\* C6: every node with an out-edge was a DFS root, and when the graph has at most
\* 100 simple directed cycles of 3 to 5 accounts up to rotation, the returned
\* list holds exactly one rotation of each.
C6_Complete ==
    Searched =>
        /\ \A n \in NodeSet(graph) :
              (\E v \in NodeSet(graph) : has_edge(graph, n, v)) => n \in Range(dfs_roots)
        /\ Cardinality(SimpleCycleClasses(graph)) <= 100 =>
              /\ ClassesOf(all_cycles) = SimpleCycleClasses(graph)
              /\ Len(all_cycles) = Cardinality(SimpleCycleClasses(graph))

\* a cycle was returned whose accounts are all outside the high-degree prefix
C6_Witness ==
    /\ Searched
    /\ Len(graph.nodes) > high_degree_prefix
    /\ \E i \in DOMAIN all_cycles :
          Range(all_cycles[i]) \cap Range(Prefix(nodes_by_degree(graph), high_degree_prefix)) = {}

\* C7: the returned list is in decreasing order of strength, and cycles of equal
\* strength are in increasing order of their least rotation.
C7_StrengthThenCanonicalOrder ==
    Searched =>
        \A i \in 1..(Len(all_cycles) - 1) :
            LET a == all_cycles[i]
                b == all_cycles[i + 1]
            IN \/ RLess(StrengthOf(graph, b), StrengthOf(graph, a))
               \/ /\ StrengthOf(graph, a) = StrengthOf(graph, b)
                  /\ LexLess(LeastRotation(a), LeastRotation(b))

\* C8: at most 100 cycles are returned, and when the graph has more than 100
\* cycles up to rotation, no cycle left out is stronger than a returned one.
C8_TopK ==
    Searched =>
        /\ Len(all_cycles) <= 100
        /\ Cardinality(SimpleCycleClasses(graph)) > 100 =>
              LET kept == {StrengthOf(graph, c) : c \in Range(all_cycles)}
                  left == {StrengthOf(graph, c) :
                              c \in SimpleCycleClasses(graph) \ ClassesOf(all_cycles)}
              IN \A x \in kept : \A y \in left : ~RLess(x, y)

\* 100 cycles were returned, and a weaker one was left out
C8_Witness ==
    /\ Searched
    /\ Len(all_cycles) = 100
    /\ \E c \in SimpleCycleClasses(graph) \ ClassesOf(all_cycles) :
          RLess(StrengthOf(graph, c), StrengthOf(graph, all_cycles[100]))

\* C9: after a batch is submitted again in another order, the node set, the edge
\* set, every edge's amount and count, every account's aggregates and the set of
\* least rotations of the returned cycles are the same as for the first order.
C9_PermutationInvariant ==
    (Searched /\ round > 0) =>
        /\ NodeSet(graph) = NodeSet(prev.graph)
        /\ DOMAIN graph.edges = DOMAIN prev.graph.edges
        /\ \A e \in DOMAIN graph.edges :
              /\ graph.edges[e].amount = prev.graph.edges[e].amount
              /\ graph.edges[e].count = prev.graph.edges[e].count
        /\ account_data = prev.account_data
        /\ ClassesOf(all_cycles) = ClassesOf(prev.all_cycles)

Scored == pc = "scored"
InRange(x) == RLeq(R(0), x) /\ RLeq(x, R(100))

\* C10: the final score of an account and each of its component scores (ring
\* involvement, smurfing, shell, flow pattern), as the score_* functions return
\* them and as the report carries them, lie between 0 and 100.
C10_ScoresInRange ==
    Scored =>
        /\ InRange(account_score.ring_score)
        /\ InRange(account_score.smurfing_score)
        /\ InRange(account_score.shell_score)
        /\ InRange(account_score.pattern_score)
        /\ InRange(account_score.score_result.final_score)
        /\ InRange(account_score.score_result.base_score)
        /\ InRange(account_score.score_result.ring_involvement_score)
        /\ InRange(account_score.score_result.smurfing_score)
        /\ InRange(account_score.score_result.shell_score)

\* an account in more rings than were returned, with high-value rings: the boosted
\* ring score is cut back to 100, and the final score is positive
C10_Witness ==
    /\ Scored
    /\ score_args.ring_count > score_args.total_rings
    /\ score_args.total_rings > 0
    /\ score_args.ring_amounts # <<>>
    /\ account_score.ring_score = R(100)
    /\ RLess(R(0), account_score.score_result.final_score)

TagOf(component) ==
    CASE component = "ring" -> "Involved in financial cycles/rings"
      [] component = "smurfing" -> "Smurfing behavior detected (high-frequency transactions)"
      [] component = "shell" -> "Shell account characteristics (high value, few transactions)"
      [] component = "pattern" -> "Suspicious transaction patterns"

\* the component score after the scorer's clamp to 0..100
ClampedComponent(component) ==
    LET x == CASE component = "ring" -> account_score.ring_score
               [] component = "smurfing" -> account_score.smurfing_score
               [] component = "shell" -> account_score.shell_score
               [] component = "pattern" -> account_score.pattern_score
    IN IF RLess(x, R(0)) THEN R(0) ELSE IF RLess(R(100), x) THEN R(100) ELSE x

\* C11: the risk level of a final score s is CRITICAL iff s >= 80, HIGH iff
\* 60 <= s < 80, MEDIUM iff 40 <= s < 60 and LOW iff s < 40, and risk_factors
\* holds the tag of a component exactly when its clamped score is above 50.
C11_RiskBandsAndFactors ==
    Scored =>
        LET s == account_score.score_result.final_score
            level == account_score.score_result.risk_level
        IN /\ (level = "CRITICAL") <=> RLeq(R(80), s)
           /\ (level = "HIGH") <=> (RLeq(R(60), s) /\ RLess(s, R(80)))
           /\ (level = "MEDIUM") <=> (RLeq(R(40), s) /\ RLess(s, R(60)))
           /\ (level = "LOW") <=> RLess(s, R(40))
           /\ \A component \in {"ring", "smurfing", "shell", "pattern"} :
                 (TagOf(component) \in Range(account_score.score_result.risk_factors))
                     <=> RLess(R(50), ClampedComponent(component))

\* a final score of exactly 80 is CRITICAL, with a flow pattern score of exactly
\* 50 that gets no tag while three other components are tagged
C11_Witness ==
    /\ Scored
    /\ account_score.score_result.final_score = R(80)
    /\ account_score.score_result.risk_level = "CRITICAL"
    /\ account_score.pattern_score = R(50)
    /\ Len(account_score.score_result.risk_factors) = 3

\* detect_smurfing_accounts has returned for the batch in `transactions`
SmurfingDetected == pc \in {"smurfing", "shell", "scored"}
\* detect_shell_accounts has returned for the batch in `transactions`
ShellDetected == pc \in {"shell", "scored"}

\* what the four phases of the smurfing detector hold on an account
PatternEntries(T, a) ==
    SelectSeq(analyze_sliding_windows(T, min_transactions)
              \o detect_structuring_patterns(T)
              \o detect_consolidation(T)
              \o analyze_fan_patterns(T, 3, 3),
              LAMBDA e : e.account_id = a)

\* C18: detect_smurfing_accounts returns at most one alert per account, each
\* with at least one pattern tag and one tag per contributing pattern;
\* pattern_count is the number of tags, total_suspicious_score is the sum of the
\* scores of the contributing patterns, risk_score is
\* min(total_suspicious_score / pattern_count, 100), and the list is in
\* non-increasing order of risk_score.
C18_SmurfingAlerts ==
    SmurfingDetected =>
        /\ \A i, j \in DOMAIN smurfing_accounts :
               i # j => smurfing_accounts[i].account_id # smurfing_accounts[j].account_id
        /\ \A i \in DOMAIN smurfing_accounts :
               LET alert == smurfing_accounts[i]
                   entries == PatternEntries(transactions, alert.account_id)
               IN /\ alert.patterns # <<>>
                  /\ Len(alert.patterns) = Len(entries)
                  /\ alert.pattern_count = Len(alert.patterns)
                  /\ alert.total_suspicious_score =
                         RSum([k \in DOMAIN entries |-> entries[k].suspicious_score])
                  /\ alert.risk_score =
                         RMin(RDiv(alert.total_suspicious_score, R(alert.pattern_count)),
                              R(100))
        /\ \A i \in 1..(Len(smurfing_accounts) - 1) :
               ~RLess(smurfing_accounts[i].risk_score, smurfing_accounts[i + 1].risk_score)

\* three alerts of falling risk, one of them of three patterns whose scores add
\* up to more than 100 and whose mean is below 100
C18_Witness ==
    /\ SmurfingDetected
    /\ Len(smurfing_accounts) = 3
    /\ RLess(smurfing_accounts[3].risk_score, smurfing_accounts[1].risk_score)
    /\ \E i \in DOMAIN smurfing_accounts :
           /\ smurfing_accounts[i].pattern_count = 3
           /\ RLess(smurfing_accounts[i].risk_score, R(100))
           /\ RLess(R(100), smurfing_accounts[i].total_suspicious_score)

\* C19: detect_shell_accounts(max_transactions=5, min_total_value=50000) emits an
\* account exactly when it has at most 5 transactions, a throughput
\* (total_in + total_out) of at least 50000 and a composite shell_score above 40;
\* the account that receives 100000 and sends 99000 has shell_score 10.25 and is
\* not emitted.
C19_ShellEmission ==
    ShellDetected =>
        /\ \A a \in NodeSet(graph) :
               LET stats == comprehensive_stats(transactions, a)
                   profile == calculate_account_risk_profile(a, stats)
               IN (\E i \in DOMAIN shell_accounts : shell_accounts[i].account_id = a)
                      <=> /\ Len(stats.transactions) <= 5
                          /\ stats.total_in + stats.total_out >= 50000
                          /\ RLess(R(40), profile.shell_score)
        /\ transactions = ShellBatch =>
               /\ calculate_account_risk_profile(
                      1, comprehensive_stats(transactions, 1)).shell_score = Frac(1025, 100)
               /\ \A i \in DOMAIN shell_accounts : shell_accounts[i].account_id # 1

\* the detector has run on the account that receives 100000 and sends 99000: two
\* transactions, a throughput of 199000, and no emission
C19_Witness ==
    /\ ShellDetected
    /\ transactions = ShellBatch
    /\ Len(comprehensive_stats(transactions, 1).transactions) <= 5
    /\ account_data[1].total_in + account_data[1].total_out >= 50000
    /\ shell_accounts = <<>>

\* the alerts the smurfing detector returned for account a
AlertsOf(a) == SelectSeq(smurfing_accounts, LAMBDA alert : alert.account_id = a)

\* C20 as stated: in the consolidation scenario the alert of B (account 1) lists
\* exactly the patterns high_fan and consolidation and has risk_score 100.
C20_AsStated ==
    (SmurfingDetected /\ transactions = ConsolidationBatch) =>
        /\ Len(AlertsOf(1)) = 1
        /\ Range(AlertsOf(1)[1].patterns) = {"high_fan", "consolidation"}
        /\ AlertsOf(1)[1].risk_score = R(100)

\* C20, amended: in the consolidation scenario the alert of B (account 1) lists
\* exactly the patterns high_frequency (its eleven transactions in one window
\* score 70) and consolidation (score 100), and has risk_score
\* min((70 + 100) / 2, 100) = 85; the volume touching B is 20000, which is not
\* above 20000, so B gets no high_fan pattern.
C20_ConsolidationScenario ==
    (SmurfingDetected /\ transactions = ConsolidationBatch) =>
        /\ Len(AlertsOf(1)) = 1
        /\ AlertsOf(1)[1].patterns = <<"high_frequency", "consolidation">>
        /\ AlertsOf(1)[1].total_suspicious_score = R(170)
        /\ AlertsOf(1)[1].risk_score = R(85)
        /\ analyze_fan_patterns(transactions, 3, 3) = <<>>

\* the smurfing detector has returned an alert for B in the consolidation scenario
C20_Witness ==
    /\ SmurfingDetected
    /\ transactions = ConsolidationBatch
    /\ AlertsOf(1) # <<>>

\* analyze_transactions has returned a report for request r
Done(r) == position[r] = "done"
\* analyze_transactions has answered request r with an error
Failed(r) == position[r] = "failed"
\* request r is inside analyze_transactions
Analyzing(r) == position[r] \in Underway
\* the reports held by the cache
CachedReports == {analysis_cache[id] : id \in DOMAIN analysis_cache}

\* C12: analyze on an empty transaction list fails with the user error HTTP 400
\* 'No transactions provided', never with an internal error (HTTP 500), and
\* leaves the result cache unchanged.
C12_EmptyListIsUserError ==
    \A r \in RequestIds :
        (requests[r].transactions = <<>> /\ ~(position[r] \in {"idle", "analyzing"})) =>
            /\ Failed(r)
            /\ requests[r].status = 400
            /\ \A report \in CachedReports : report.total_transactions > 0

\* a report is cached under its own identifier, and was handed back by a request
Cached(id) ==
    /\ id \in DOMAIN analysis_cache
    /\ analysis_cache[id].analysis_id = id
    /\ \E r \in RequestIds : Done(r) /\ requests[r].body = analysis_cache[id]

\* what get_analysis has to answer for an identifier
Lookup(id) ==
    IF \E r \in RequestIds : Done(r) /\ requests[r].analysis_id = id
    THEN [analysis_id |-> id, status |-> 200,
          body |-> requests[CHOOSE r \in RequestIds :
                                Done(r) /\ requests[r].analysis_id = id].body]
    ELSE [analysis_id |-> id, status |-> 404, body |-> "Analysis not found"]

\* C13: get_analysis(id) returns exactly the report a successful analyze
\* returned under that id, and 404 for every id no successful analyze returned;
\* a cached entry is never removed or replaced by a later step.
C13_CacheLookup ==
    [][/\ \A id \in AnalysisIds : GetAnalysis(id) => response' = Lookup(id)
       /\ \A id \in DOMAIN analysis_cache :
              /\ Cached(id)
              /\ id \in DOMAIN analysis_cache'
              /\ analysis_cache'[id] = analysis_cache[id]]_vars

\* two analyses have returned and are cached, and the report of the first
\* request has been looked up
C13_Witness ==
    /\ \A r \in RequestIds : Done(r)
    /\ Cardinality(DOMAIN analysis_cache) = 2
    /\ response.status = 200
    /\ response.body = requests[1].body
    /\ response.body # requests[2].body

\* a report without its identifier
Anonymous(report) == [report EXCEPT !.analysis_id = <<>>]

\* C14: two runs of analyze on the same batch return reports that are equal in
\* every field except analysis_id, the summary, the ring identifiers and the
\* order of every list included.
C14_Deterministic ==
    \A r1, r2 \in RequestIds :
        (Done(r1) /\ Done(r2) /\ requests[r1].transactions = requests[r2].transactions) =>
            Anonymous(requests[r1].body) = Anonymous(requests[r2].body)

\* the pairs of positions a request passes through
Progress ==
    {<<"idle", "analyzing">>, <<"analyzing", "built">>, <<"built", "cycles">>,
     <<"cycles", "smurfing">>, <<"smurfing", "shell">>, <<"shell", "scored">>,
     <<"scored", "done">>}

\* a report in which no detector found anything
NothingDetected(report) ==
    /\ report.rings_detected = <<>>
    /\ report.smurfing_alerts = <<>>
    /\ report.shell_accounts = <<>>

\* the accounts of a batch
AccountsOf(T) == {T[i].from_account : i \in DOMAIN T} \cup {T[i].to_account : i \in DOMAIN T}

\* C15: every analyze call on a non-empty batch goes Idle -> Analyzing -> Done: it
\* ends, with a report that is cached, also when the detectors find no cycle, no
\* smurfing alert and no shell account; every account then still has a score
\* entry, with a ring score of 0.
C15_AnalysisCompletes ==
    /\ [][\A r \in RequestIds :
             (requests[r].transactions # <<>> /\ position'[r] # position[r]) =>
                 <<position[r], position'[r]>> \in Progress]_vars
    /\ [](\A r \in RequestIds :
             Done(r) =>
                 /\ requests[r].status = 200
                 /\ requests[r].analysis_id \in DOMAIN analysis_cache
                 /\ analysis_cache[requests[r].analysis_id] = requests[r].body
                 /\ NothingDetected(requests[r].body) =>
                        /\ {s.account_id : s \in Range(requests[r].body.account_scores)}
                               = AccountsOf(requests[r].transactions)
                        /\ Len(requests[r].body.account_scores)
                               = Cardinality(AccountsOf(requests[r].transactions))
                        /\ \A s \in Range(requests[r].body.account_scores) :
                               s.ring_involvement_score = R(0))
    /\ \A r \in RequestIds :
           (Analyzing(r) /\ requests[r].transactions # <<>>) ~> Done(r)

\* an analysis that found nothing has returned its report, which is cached
C15_Witness ==
    \E r \in RequestIds :
        /\ Done(r)
        /\ NothingDetected(requests[r].body)
        /\ Len(requests[r].body.account_scores) = 2
        /\ analysis_cache[requests[r].analysis_id] = requests[r].body

\* C16: when analyses run at the same time, each returns the report it would
\* return when run alone, and once all have ended the cache holds one entry per
\* successful analysis, under pairwise distinct identifiers.
C16_ConcurrentAnalyses ==
    /\ \A r \in RequestIds :
           Done(r) =>
               requests[r].body =
                   analysis_report(requests[r].transactions, requests[r].analysis_id,
                                   requests[r].body.summary.analysis_timestamp, hash_seed)
    /\ (\A r \in RequestIds : Done(r) \/ Failed(r)) =>
           /\ \A r1, r2 \in RequestIds :
                  (Done(r1) /\ Done(r2) /\ r1 # r2) =>
                      requests[r1].body.analysis_id # requests[r2].body.analysis_id
           /\ DOMAIN analysis_cache =
                  {requests[r].body.analysis_id : r \in {q \in RequestIds : Done(q)}}
           /\ Cardinality(DOMAIN analysis_cache)
                  = Cardinality({q \in RequestIds : Done(q)})
           /\ \A r \in RequestIds :
                  Done(r) => analysis_cache[requests[r].body.analysis_id] = requests[r].body

\* two analyses of different batches, whose identifiers start with the same
\* digits, have both returned
C16_Witness ==
    /\ \A r \in RequestIds : Done(r)
    /\ requests[1].transactions # requests[2].transactions
    /\ id_prefix(requests[1].analysis_id) = id_prefix(requests[2].analysis_id)
    /\ Cardinality(DOMAIN analysis_cache) = 2

\* C17: in every report the risk_score of a smurfing alert is the smurfing score
\* of the same account in account_scores, the risk_score of a shell alert is the
\* shell score of the same account, and the account of every alert has an entry
\* in account_scores.
C17_AlertScores ==
    \A report \in CachedReports :
        /\ \A alert \in Range(report.smurfing_alerts) :
               \E s \in Range(report.account_scores) :
                   /\ s.account_id = alert.account_id
                   /\ alert.risk_score = s.smurfing_score
        /\ \A alert \in Range(report.shell_accounts) :
               \E s \in Range(report.account_scores) :
                   /\ s.account_id = alert.account_id
                   /\ alert.risk_score = s.shell_score

\* a cached report with a smurfing alert whose risk_score is above 0 and is not
\* the final score of the account
C17_Witness ==
    \E report \in CachedReports :
        \E alert \in Range(report.smurfing_alerts) :
            \E s \in Range(report.account_scores) :
                /\ s.account_id = alert.account_id
                /\ RLess(R(0), alert.risk_score)
                /\ alert.risk_score # s.final_score

\* the alerts of account a in the report of request r
ReportedSmurfing(r, a) ==
    SelectSeq(requests[r].body.smurfing_alerts, LAMBDA alert : alert.account_id = a)
\* what the smurfing detector returned to request r for account a
DetectedSmurfing(r, a) ==
    SelectSeq(requests[r].smurfing_accounts, LAMBDA alert : alert.account_id = a)
\* request r has analysed the fan-out scenario
FanOutDone(r) == Done(r) /\ requests[r].transactions = FanOutBatch
\* the window entries of account a in the batch T
WindowEntries(T, a) ==
    SelectSeq(analyze_sliding_windows(T, min_transactions), LAMBDA w : w.account_id = a)

WindowAt(T, idx) ==
    LET sorted_txns == sort_by_timestamp(T)
    IN SelectSeq(SubSeq(sorted_txns, idx, Len(sorted_txns)),
                 LAMBDA t : t.timestamp <= sorted_txns[idx].timestamp + 72)
\* account a is suspicious in a window of T that holds at least `least`
\* transactions
SuspiciousInWindow(T, a, least) ==
    \E idx \in 1..Len(T) :
        /\ Len(WindowAt(T, idx)) >= least
        /\ window_account(WindowAt(T, idx), a, WindowAt(T, idx)[1].timestamp) # <<>>
\* the smurfing detector tagged account a high_frequency
HighFrequency(a) ==
    \E i \in DOMAIN smurfing_accounts :
        /\ smurfing_accounts[i].account_id = a
        /\ "high_frequency" \in Range(smurfing_accounts[i].patterns)

\* C22 as stated: in a full analysis the window of an anchor transaction is
\* analysed if and only if it holds at least 6 transactions, so an account that
\* is suspicious in a window of 6 to 9 transactions is tagged high_frequency.
C22_AsStated ==
    SmurfingDetected =>
        \A a \in NodeSet(graph) :
            HighFrequency(a) <=> SuspiciousInWindow(transactions, a, 6)

\* C22, amended: in a full analysis the window of an anchor transaction is
\* analysed if and only if it holds at least 10 transactions: an account is
\* tagged high_frequency exactly when it is suspicious in a window of at least
\* 10 transactions, and a window of 6 to 9 transactions is skipped.
C22_WindowsOfTen ==
    SmurfingDetected =>
        \A a \in NodeSet(graph) :
            HighFrequency(a) <=> SuspiciousInWindow(transactions, a, 10)

\* the detector has run on a batch with an account that is suspicious in a
\* window of 6 to 9 transactions and in no window of 10, and has not tagged it
C22_Witness ==
    /\ SmurfingDetected
    /\ \E a \in NodeSet(graph) :
           /\ SuspiciousInWindow(transactions, a, 6)
           /\ ~SuspiciousInWindow(transactions, a, 10)
           /\ ~HighFrequency(a)
    /\ \E idx \in 1..Len(transactions) : Len(WindowAt(transactions, idx)) \in 6..9

\* the amounts of the transactions of T that account a sends or receives
TouchingAmounts(T, a) ==
    LET touching == SelectSeq(T, LAMBDA t : t.from_account = a \/ t.to_account = a)
    IN [i \in DOMAIN touching |-> touching[i].amount]
\* how many of the amounts lie strictly between nine tenths of the threshold and
\* the threshold
JustBelow(amounts, threshold) ==
    Cardinality({i \in DOMAIN amounts :
                    10 * amounts[i] > 9 * threshold /\ amounts[i] < threshold})
\* the structuring patterns the detector holds on account a for a threshold
StructuringEntries(T, a, threshold) ==
    SelectSeq(detect_structuring_patterns(T),
              LAMBDA e : e.account_id = a /\ e.threshold = threshold)

\* C23: for every account and every threshold T in {10000, 5000, 3000, 1000}, a
\* structuring_T pattern is emitted iff the account has at least 5 touching
\* amounts and the fraction of them strictly between 0.9*T and T is strictly
\* above 0.4; its suspicious_score is that fraction times 100, and the alert of
\* the account carries the tag.  Six A->B transactions of 9500 tag both A and B
\* with structuring_10000 at score 100.
C23_Structuring ==
    SmurfingDetected =>
        /\ \A a \in NodeSet(graph), threshold \in {10000, 5000, 3000, 1000} :
               LET amounts == TouchingAmounts(transactions, a)
                   entries == StructuringEntries(transactions, a, threshold)
                   emitted == /\ Len(amounts) >= 5
                              /\ 10 * JustBelow(amounts, threshold) > 4 * Len(amounts)
               IN /\ Len(entries) = (IF emitted THEN 1 ELSE 0)
                  /\ emitted =>
                         /\ entries[1].suspicious_score =
                                Frac(100 * JustBelow(amounts, threshold), Len(amounts))
                         /\ Len(AlertsOf(a)) = 1
                         /\ structuring_tag(threshold) \in Range(AlertsOf(a)[1].patterns)
                  /\ ~emitted =>
                         \A i \in DOMAIN smurfing_accounts :
                             smurfing_accounts[i].account_id = a =>
                                 structuring_tag(threshold)
                                     \notin Range(smurfing_accounts[i].patterns)
        /\ transactions = StructuringBatch =>
               \A a \in {1, 2} :
                   /\ AlertsOf(a)[1].patterns = <<"structuring_10000">>
                   /\ AlertsOf(a)[1].total_suspicious_score = R(100)

\* the detector has run on six transfers of 9500 from A to B and has an alert for
\* both
C23_Witness ==
    /\ SmurfingDetected
    /\ transactions = StructuringBatch
    /\ Len(smurfing_accounts) = 2
    /\ \A a \in {1, 2} : StructuringEntries(transactions, a, 10000) # <<>>

\* the high_fan entries of account a in the batch T
FanEntries(T, a) ==
    SelectSeq(analyze_fan_patterns(T, 3, 3), LAMBDA f : f.account_id = a)
\* the transactions of T that account a sends or receives
Touching(T, a) == SelectSeq(T, LAMBDA t : t.from_account = a \/ t.to_account = a)

RingsOf(a) == SelectSeq(all_cycles, LAMBDA c : a \in Range(c))

\* C25: the ring_count handed to the scorer for an account is the number of
\* emitted, deduplicated cycles that hold the account, so that ring_count never
\* exceeds total_rings; an account of one of two disjoint triangles has
\* ring_count 1 with total_rings 2.
C25_RingCount ==
    Searched =>
        \A a \in NodeSet(graph) :
            /\ get_cycle_participation(cycles, a) = Len(RingsOf(a))
            /\ get_cycle_participation(cycles, a) <= Len(all_cycles)
            /\ transactions = TwoTrianglesBatch =>
                   /\ get_cycle_participation(cycles, a) = 1
                   /\ Len(all_cycles) = 2

\* what analyze reads of get_account_stats for account a
StatsOf(a) ==
    [stats |-> [total_in |-> R(account_data[a].total_in),
                total_out |-> R(account_data[a].total_out),
                txn_count |-> account_data[a].txn_count,
                in_degree |-> account_data[a].in_degree,
                out_degree |-> account_data[a].out_degree]]

\* C26: the flow-pattern score handed to the scorer for an account is computed
\* with the numbers of distinct senders to and distinct receivers from the
\* account as sources and destinations.
C26_DistinctCounterparties ==
    Built =>
        \A a \in NodeSet(graph) :
            LET history == comprehensive_stats(transactions, a)
            IN pattern_score_of(StatsOf(a)) =
                   score_flow_pattern(R(history.total_in), R(history.total_out),
                                      Len(history.transactions),
                                      Cardinality(history.unique_sources),
                                      Cardinality(history.unique_destinations))

(***************************************************************************)
(* The divisions and the maxima and means of lists that the analysis       *)
(* evaluates.  A division is kept as the place it stands at, whether the   *)
(* code evaluates it (`taken`: the conditions and early returns before     *)
(* it), the guarded quantity (`raw`: the denominator, or the length of the *)
(* list) and what the code divides by (`divisor`).                         *)
(***************************************************************************)
Division(file, line, taken, raw, divisor) ==
    [at |-> <<file, line>>, taken |-> taken, raw |-> raw, divisor |-> divisor]

\* cycle_detector_v2.py lines 148-178: get_cycle_metrics
cycle_divisions(G, cycle) ==
    LET present == SelectSeq(cycle_edges(cycle), LAMBDA e : has_edge(G, e[1], e[2]))
        amounts_per_edge == [i \in 1..Len(present) |-> G.edges[present[i]].amount]
        n == Len(amounts_per_edge)
        total_amount == SumSeq(amounts_per_edge)
    IN {Division("cycle_detector_v2", 150, Len(cycle) > 0, Len(cycle), Len(cycle)),
        Division("cycle_detector_v2", 165, n # 0, n, n),
        Division("cycle_detector_v2", 166, n # 0, n, n),
        Division("cycle_detector_v2", 167, n # 0 /\ total_amount > 0, total_amount,
                 total_amount)}

\* a variant of window_divisions that divides by the time span itself
window_divisions_unfloored(txns, account_id) ==
    LET mine == account_txns(txns, account_id)
        sent == SelectSeq(mine, LAMBDA t : t.from_account = account_id)
        sent_times == {sent[i].timestamp : i \in DOMAIN sent}
        time_span == IF sent # <<>> THEN MaxOf(sent_times) - MinOfSet(sent_times) ELSE 0
    IN IF Len(mine) < 6 THEN {}
       ELSE {Division("smurf_detector_v2", 131, sent # <<>>, Len(sent), Len(sent)),
             Division("smurf_detector_v2", 132, sent # <<>>, time_span, time_span),
             Division("smurf_detector_v2", 150, mine # <<>>, Len(mine), Len(mine))}

\* smurf_detector_v2.py lines 120-154: one account of one window
window_divisions(txns, account_id) ==
    LET mine == account_txns(txns, account_id)
        sent == SelectSeq(mine, LAMBDA t : t.from_account = account_id)
        sent_times == {sent[i].timestamp : i \in DOMAIN sent}
        time_span == IF sent # <<>> THEN MaxOf(sent_times) - MinOfSet(sent_times) ELSE 0
    IN IF Len(mine) < 6 THEN {}
       ELSE {Division("smurf_detector_v2", 131, sent # <<>>, Len(sent), Len(sent)),
             Division("smurf_detector_v2", 132, sent # <<>>, time_span, MaxInt(time_span, 1)),
             Division("smurf_detector_v2", 150, mine # <<>>, Len(mine), Len(mine))}

\* smurf_detector_v2.py lines 73-108: the windows that are analysed and the
\* best window of every account that has an entry
sliding_window_divisions(T, min_txns) ==
    IF T = <<>> THEN {}
    ELSE LET sorted_txns == sort_by_timestamp(T)
             window_txns(start_idx) ==
                 SelectSeq(SubSeq(sorted_txns, start_idx, Len(sorted_txns)),
                           LAMBDA t : t.timestamp <= sorted_txns[start_idx].timestamp
                                                      + window_hours)
             analysed == {start_idx \in 1..Len(sorted_txns) :
                              Len(window_txns(start_idx)) >= min_txns}
             account_alerts == Concat([start_idx \in 1..Len(sorted_txns) |->
                                          window_from(sorted_txns, start_idx, min_txns)])
             windows(a) == SelectSeq(account_alerts, LAMBDA w : w.account_id = a)
         IN UNION {window_divisions(window_txns(start_idx), a) :
                       start_idx \in analysed, a \in AccountsOf(T)}
            \cup {Division("smurf_detector_v2", 105, TRUE, Len(windows(a)), Len(windows(a))) :
                      a \in {account_alerts[i].account_id : i \in DOMAIN account_alerts}}

\* smurf_detector_v2.py lines 158-225 and 288-343: the whole history of one
\* account; `patterns` are the tags of its alert
smurf_divisions(T, account_id, patterns) ==
    LET sends == SelectSeq(T, LAMBDA t : t.from_account = account_id)
        receives == SelectSeq(T, LAMBDA t : t.to_account = account_id)
        total_count == Len(sends) + Len(receives)
        total_in == SumSeq([i \in DOMAIN receives |-> receives[i].amount])
    IN (IF total_count < 5 THEN {}
        ELSE {Division("smurf_detector_v2", 182, total_count > 0, total_count, total_count)})
       \cup (IF Len(receives) >= 3 /\ Len(sends) >= 1
             THEN {Division("smurf_detector_v2", 211, sends # <<>>, Len(sends), Len(sends))}
             ELSE {})
       \cup (IF consolidation_of(T, account_id) # <<>>
             THEN {Division("smurf_detector_v2", 221, total_in > 0, total_in, total_in)}
             ELSE {})
       \cup {Division("smurf_detector_v2", 340, patterns # <<>>, Len(patterns), Len(patterns))}

\* shell_detector_v2.py lines 86-335: the risk profile of one account and the
\* two auxiliary lists
shell_divisions(stats) ==
    LET txn_count == Len(stats.transactions)
        total_in == stats.total_in
        total_out == stats.total_out
        sorted_times == SortedInts(stats.timestamps)
        time_gaps == time_gaps_of(sorted_times)
        timed == Len(stats.timestamps) >= 3 /\ time_gaps # <<>>
        max_gap == IF time_gaps # <<>> THEN MaxOf(Range(time_gaps)) ELSE 0
        gap_idx == CHOOSE i \in DOMAIN time_gaps :
                       /\ time_gaps[i] = max_gap
                       /\ \A j \in 1..(i - 1) : time_gaps[j] # max_gap
        subsequent_gaps == IF time_gaps # <<>>
                           THEN SubSeq(time_gaps, gap_idx + 1, Len(time_gaps))
                           ELSE <<>>
        clustered == timed /\ score_temporal_pattern(stats.timestamps) # 15
                           /\ SumSeq(time_gaps) > 0
        total_span == IF sorted_times # <<>>
                      THEN sorted_times[Len(sorted_times)] - sorted_times[1]
                      ELSE 0
        amounts == stats.amounts
        uniform == Len(amounts) >= 3 /\ SumSeq(amounts) # 0
    IN {Division("shell_detector_v2", 94, txn_count > 0, txn_count, txn_count),
        Division("shell_detector_v2", 139, total_in > 0, total_in, total_in),
        Division("shell_detector_v2", 158, ~(total_in = 0 \/ total_out = 0),
                 MaxInt(total_out, total_in), MaxInt(total_out, total_in)),
        Division("shell_detector_v2", 211, timed, Len(time_gaps), Len(time_gaps)),
        Division("shell_detector_v2", 220, timed /\ max_gap > 168 /\ subsequent_gaps # <<>>,
                 Len(subsequent_gaps), Len(subsequent_gaps)),
        Division("shell_detector_v2", 225, clustered /\ Len(time_gaps) > 1,
                 Len(time_gaps) - 1, Len(time_gaps) - 1),
        Division("shell_detector_v2", 226, clustered, SumSeq(time_gaps), SumSeq(time_gaps)),
        Division("shell_detector_v2", 246,
                 /\ ~(Len(stats.inbound) = 0 /\ Len(stats.outbound) > 2)
                 /\ ~(Len(stats.outbound) = 0 /\ Len(stats.inbound) > 2)
                 /\ txn_count > 0,
                 txn_count, txn_count),
        Division("shell_detector_v2", 262, uniform, Len(amounts), Len(amounts)),
        Division("shell_detector_v2", 263, uniform /\ Len(amounts) > 1,
                 Len(amounts) - 1, Len(amounts) - 1),
        Division("shell_detector_v2", 267, uniform /\ SumSeq(amounts) > 0,
                 SumSeq(amounts), SumSeq(amounts)),
        Division("shell_detector_v2", 286, total_in > 0 /\ total_out > 0,
                 MaxInt(total_out, total_in), MaxInt(total_out, total_in)),
        Division("shell_detector_v2", 323,
                 Len(stats.timestamps) >= 3 /\ total_span # 0 /\ total_span > 0,
                 total_span, total_span)}

\* scoring.py lines 95-117 and 177-214, as analyze calls them (main.py lines
\* 151-153 and 181-189); amounts are fractions, zero when their numerator is
scorer_divisions(args) ==
    LET ringed == args.total_rings > 0 /\ args.ring_count # 0
        in_amount == args.stats.total_in
        out_amount == args.stats.total_out
        total_txns == args.stats.txn_count
        scored == total_txns # 0
        connectivity == Frac(args.stats.in_degree + args.stats.out_degree,
                             MaxInt(total_txns, 1))
    IN {Division("scoring", 109, ringed, args.total_rings, MaxInt(args.total_rings, 1)),
        Division("scoring", 113, ringed /\ args.ring_amounts # <<>>,
                 Len(args.ring_amounts), Len(args.ring_amounts)),
        Division("scoring", 195,
                 scored /\ RLess(R(0), in_amount) /\ RLess(R(0), out_amount),
                 RMax(in_amount, out_amount)[1], RMax(in_amount, out_amount)[1]),
        Division("scoring", 209, scored, total_txns, total_txns),
        Division("scoring", 210, scored, total_txns, MaxInt(total_txns, 1)),
        Division("scoring", 211, scored, connectivity[1],
                 RMax(connectivity, Frac(1, 10))[1])}

\* main.py lines 230-254: the summary of the report
summary_divisions(T, all_accounts, found_cycles) ==
    {Division("main", 233, T # <<>>, Len(T), Len(T)),
     Division("main", 235, T # <<>>, Len(T), Len(T)),
     Division("main", 238, all_accounts # {}, Cardinality(all_accounts),
              Cardinality(all_accounts)),
     Division("main", 251, T # <<>>, Len(T), Len(T)),
     Division("main", 252, T # <<>>, Len(T), Len(T)),
     Division("main", 254, found_cycles # <<>>, Len(found_cycles), Len(found_cycles))}

\* every division of the analysis of the batch, once the detectors have run
Divisions ==
    UNION {cycle_divisions(graph, cycles[i]) : i \in DOMAIN cycles}
    \cup sliding_window_divisions(transactions, min_transactions)
    \cup UNION {smurf_divisions(transactions, a,
                                IF AlertsOf(a) # <<>> THEN AlertsOf(a)[1].patterns ELSE <<>>) :
                    a \in NodeSet(graph)}
    \cup UNION {shell_divisions(comprehensive_stats(transactions, a)) : a \in NodeSet(graph)}
    \cup UNION {scorer_divisions(
                    detector_outputs([graph |-> graph, account_data |-> account_data],
                                     [cycles |-> cycles, roots |-> dfs_roots,
                                      result |-> all_cycles],
                                     smurfing_accounts, shell_accounts, a)) :
                    a \in NodeSet(graph)}
    \cup summary_divisions(transactions, NodeSet(graph), all_cycles)

\* C27 as stated: no step of the graph builder, the cycle metrics, the smurfing
\* detector, the shell detector, the scorer or the summary divides by zero or
\* takes the maximum or the mean of an empty list, and wherever the guarded
\* quantity is zero the quotient is not taken and zero is used instead.
C27_AsStated ==
    ShellDetected =>
        \A d \in Divisions :
            /\ d.taken => d.divisor # 0
            /\ d.raw = 0 => ~d.taken

\* C27, amended: no step of the graph builder, the cycle metrics, the smurfing
\* detector, the shell detector, the scorer or the summary divides by zero or
\* takes the maximum or the mean of an empty list.  A denominator guarded by a
\* condition is not divided by when it is zero; the velocity of a window is
\* the one quotient taken over a zero quantity, and it divides by the floor 1:
\* outbound transactions that share one timestamp have a velocity equal to
\* their number.
C27_Guarded ==
    ShellDetected =>
        \A d \in Divisions :
            /\ d.taken => d.divisor # 0
            /\ d.raw = 0 /\ d.taken =>
                   d.at = <<"smurf_detector_v2", 132>> /\ d.divisor = 1

\* the analysis of a batch has divided the outbound count of a window by the
\* floor of a zero time span, and has left a division by zero inflow untaken
C27_Witness ==
    /\ ShellDetected
    /\ \E d \in Divisions :
           d.at = <<"smurf_detector_v2", 132>> /\ d.taken /\ d.raw = 0 /\ d.divisor = 1
    /\ \E d \in Divisions : d.at = <<"shell_detector_v2", 158>> /\ ~d.taken /\ d.raw > 0
    /\ \E d \in Divisions : d.at = <<"shell_detector_v2", 226>> /\ ~d.taken /\ d.raw = 0
    /\ \E d \in Divisions : d.at = <<"main", 254>> /\ ~d.taken

\* the risk profile the shell detector computes for account a of the batch
ProfileOf(a) == calculate_account_risk_profile(a, comprehensive_stats(transactions, a))

\* C28: the composite shell_score of every account is at most 18.55, the six
\* factors being at most 20, 25, 20, 15, 12 and 5 under the weights 0.20, 0.25,
\* 0.20, 0.15, 0.15 and 0.05; it never exceeds the emission threshold 40, so
\* detect_shell_accounts returns an empty list and every risk_level is LOW.
C28_ShellScoreBound ==
    ShellDetected =>
        /\ \A a \in NodeSet(graph) :
               /\ RLeq(ProfileOf(a).high_value_score, R(20))
               /\ ProfileOf(a).pass_through_score <= 25
               /\ ProfileOf(a).connection_score <= 20
               /\ ProfileOf(a).dormancy_score <= 15
               /\ ProfileOf(a).directionality_score <= 12
               /\ ProfileOf(a).uniformity_score <= 5
               /\ RLeq(ProfileOf(a).shell_score, Frac(1855, 100))
               /\ ~RLess(R(40), ProfileOf(a).shell_score)
               /\ ProfileOf(a).risk_level = "LOW"
        /\ shell_accounts = <<>>

\* the detector has run on an account whose pass-through, high-value and
\* dormancy factors are all at their caps, and has emitted nothing
C28_Witness ==
    /\ ShellDetected
    /\ transactions = DormantShellBatch
    /\ ProfileOf(1).high_value_score = R(20)
    /\ ProfileOf(1).pass_through_score = 25
    /\ ProfileOf(1).dormancy_score = 15
    /\ RLess(R(10), ProfileOf(1).shell_score)
    /\ comprehensive_stats(transactions, 1).total_in
           + comprehensive_stats(transactions, 1).total_out >= 50000
    /\ shell_accounts = <<>>

\* the accounts the shell detector returned to request r
ShellEmitted(r) == {requests[r].shell_accounts[i].account_id : i \in DOMAIN requests[r].shell_accounts}
\* the accounts the smurfing detector returned to request r
SmurfingEmitted(r) == {requests[r].smurfing_accounts[i].account_id : i \in DOMAIN requests[r].smurfing_accounts}

\* C29: in a report of analyze the shell component of an account is non-zero
\* only if the shell detector emitted the account, and the smurfing component
\* only if the smurfing detector emitted it; no shell alert being emitted, the
\* shell component of every account is 0, every final_score is at most 75, no
\* account is CRITICAL and critical_accounts is empty.
C29_Components ==
    \A r \in RequestIds :
        Done(r) =>
            /\ \A s \in Range(requests[r].body.account_scores) :
                   /\ s.shell_score # R(0) => s.account_id \in ShellEmitted(r)
                   /\ s.smurfing_score # R(0) => s.account_id \in SmurfingEmitted(r)
                   /\ s.shell_score = R(0)
                   /\ RLeq(s.final_score, R(75))
                   /\ s.risk_level # "CRITICAL"
            /\ ShellEmitted(r) = {}
            /\ requests[r].body.shell_accounts = <<>>
            /\ requests[r].body.critical_accounts = <<>>
            /\ requests[r].body.summary.critical_accounts = 0

\* a report scores the sender of the fan-out scenario, whom the smurfing
\* detector emitted, with a smurfing component of 2 and a positive final score,
\* and scores a receiver, whom it did not emit, with a smurfing component of 0
C29_Witness ==
    \E r \in RequestIds :
        /\ FanOutDone(r)
        /\ SmurfingEmitted(r) = {1}
        /\ \E s \in Range(requests[r].body.account_scores) :
               /\ s.account_id = 1
               /\ s.smurfing_score = R(2)
               /\ s.shell_score = R(0)
               /\ RLess(R(0), s.final_score)
        /\ \E s \in Range(requests[r].body.account_scores) :
               s.account_id = 2 /\ s.smurfing_score = R(0) /\ RLess(R(0), s.final_score)

\* what analyze hands to the scorer for account a, once the detectors have run
ScorerInputs(a) ==
    detector_outputs([graph |-> graph, account_data |-> account_data],
                     [cycles |-> cycles, roots |-> dfs_roots, result |-> all_cycles],
                     smurfing_accounts, shell_accounts, a)

====
